---- MODULE Spec2Model ----
(***************************************************************************)
(* Logical model of cubes/model.py: Model, Cube, Dimension, Level,         *)
(* Attribute, Measure, MeasureAggregate and the aggregate reference        *)
(* helpers.  Python objects are records; an object's identity is its `id`  *)
(* field; an OrderedDict is a sequence of [key, value] entries in          *)
(* insertion order.                                                        *)
(***************************************************************************)
EXTENDS Integers, Sequences, FiniteSets, TLC

VARIABLES
    model_dimensions,   \* Model._dimensions : OrderedDict name -> Dimension
    model_cubes,        \* Model.cubes       : OrderedDict name -> Cube
    call,               \* the last Model method call, its arguments, the
                        \* model before it and its outcome
    aref,               \* aggregate_ref / split_aggregate_ref: the arguments,
                        \* the reference string and the result of the split
    new_cube,           \* the last Cube(...) construction: its arguments and
                        \* the cube object or the error raised
    new_dimension,      \* the last Dimension(...) construction: the dimension
                        \* object or the error raised
    ref_call,           \* the last Attribute.ref() call and its result
    hierarchy_calls,    \* the outcomes of the Dimension.hierarchy() calls on
                        \* the dimension, in call order
    validation,         \* the last validate() / is_valid() call: the object
                        \* validated and the diagnostics returned
    heap,               \* the objects of an assembled model and of its
                        \* localized copies; a reference is an index
    localized,          \* the last Model.localize() call: the objects before
                        \* it, the translation and the outcome
    query               \* the last lookup on a cube or hierarchy: the method,
                        \* its arguments and what it returned or raised

model_vars == <<model_dimensions, model_cubes, call>>
aref_vars == <<aref>>
cube_vars == <<new_cube>>
dimension_vars == <<new_dimension, ref_call, hierarchy_calls, validation>>

localize_vars == <<heap, localized>>

query_vars == <<query>>

vars == <<model_vars, aref_vars, cube_vars, dimension_vars, localize_vars,
          query_vars>>

----------------------------------------------------------------------------
(* collections.OrderedDict *)

OD_keys(od) == [i \in 1..Len(od) |-> od[i].key]

OD_values(od) == [i \in 1..Len(od) |-> od[i].value]

OD_has(od, k) == \E i \in 1..Len(od) : od[i].key = k

OD_get(od, k) == od[CHOOSE i \in 1..Len(od) : od[i].key = k].value

\* od[k] = v : a known key keeps its position, a new key goes last
OD_set(od, k, v) ==
    IF OD_has(od, k)
    THEN [i \in 1..Len(od) |->
             IF od[i].key = k THEN [key |-> k, value |-> v] ELSE od[i]]
    ELSE Append(od, [key |-> k, value |-> v])

Range(s) == {s[i] : i \in 1..Len(s)}

----------------------------------------------------------------------------
(* Optional values: None, or a value.  `x or default` and `if x` test     *)
(* truthiness: None, the empty string and the empty list are false.       *)

None == [some |-> FALSE, value |-> <<>>]

Some(v) == [some |-> TRUE, value |-> v]

Truthy(x) == x.some /\ x.value # <<>>

\* OrderedDict(pairs) and OrderedDict.update(pairs), from pairs[i] on
RECURSIVE OD_update(_, _, _)
OD_update(od, pairs, i) ==
    IF i > Len(pairs)
    THEN od
    ELSE OD_update(OD_set(od, pairs[i].key, pairs[i].value), pairs, i + 1)

\* the pairs (obj.name, obj) of a list of named objects
NamePairs(objects) ==
    [i \in 1..Len(objects) |-> [key |-> objects[i].name, value |-> objects[i]]]

----------------------------------------------------------------------------
(* Strings are sequences of characters; a slice s[a:b] is SubSeq(s, a+1, b) *)

MaxNameLen == 2

Chars == {"a", "b", "_"}

Strings == UNION {[1..n -> Chars] : n \in 0..MaxNameLen}

Underscore == <<"_">>

\* mutant: the first '_' instead of the last
find(s, c) ==
    IF \E i \in 1..Len(s) : s[i] = c
    THEN (CHOOSE i \in 1..Len(s) :
              s[i] = c /\ \A j \in 1..(i - 1) : s[j] # c) - 1
    ELSE -1

\* str.rfind: the 0-based index of the last occurrence of c in s, or -1
rfind(s, c) ==
    IF \E i \in 1..Len(s) : s[i] = c
    THEN (CHOOSE i \in 1..Len(s) :
              s[i] = c /\ \A j \in (i + 1)..Len(s) : s[j] # c) - 1
    ELSE -1

(* aggregate_ref: "%s_%s" % (measure, aggregate) *)
aggregate_ref(measure, aggregate) == measure \o Underscore \o aggregate

NotSplit ==
    [error |-> "not called", measure |-> <<>>, aggregate |-> <<>>,
     meaning |-> <<>>]

\* mutant: a trailing '_' is let through (r >= len(measure))
split_aggregate_ref_off_by_one(measure) ==
    LET r == rfind(measure, "_")
    IN  IF r = -1 \/ r >= Len(measure)
        THEN [error |-> "ArgumentError", measure |-> <<>>, aggregate |-> <<>>,
              meaning |-> measure \o <<"_", "s", "u", "m">>]
        ELSE [error |-> "none",
              measure |-> SubSeq(measure, 1, r),
              aggregate |-> SubSeq(measure, r + 2, Len(measure)),
              meaning |-> <<>>]

(* split_aggregate_ref: (measure[:r], measure[r + 1:]) at r = rfind("_"),   *)
(* ArgumentError with the likely meaning when there is no '_' or it is last *)
split_aggregate_ref(measure) ==
    LET r == rfind(measure, "_")
    IN  IF r = -1 \/ r >= Len(measure) - 1
        THEN [error |-> "ArgumentError", measure |-> <<>>, aggregate |-> <<>>,
              meaning |-> IF r = -1
                          THEN measure \o <<"_", "s", "u", "m">>
                          ELSE measure \o <<"s", "u", "m">>]
        ELSE [error |-> "none",
              measure |-> SubSeq(measure, 1, r),
              aggregate |-> SubSeq(measure, r + 2, Len(measure)),
              meaning |-> <<>>]

----------------------------------------------------------------------------
(* Bounds and inputs of the model-assembly specification *)

MaxObjsPerName == 2
MaxCubeDims == 2

DimNames == {"date", "geo"}
CubeNames == {"sales", "costs"}

\* Dimension objects as Model sees them: a name and an identity
DimensionObjects == [name : DimNames, id : 1..MaxObjsPerName]

NoDimension == [name |-> "none", id |-> 0]

\* a cube's dimensions have pairwise distinct names (Cube.add_dimension)
DistinctNames(ds) ==
    \A i, j \in 1..Len(ds) : i # j => ds[i].name # ds[j].name

DimensionLists ==
    UNION {{ds \in [1..n -> DimensionObjects] : DistinctNames(ds)} :
              n \in 0..MaxCubeDims}

\* Cube objects as Model sees them: a name and the cube's dimensions
CubeObjects == [name : CubeNames, dimensions : DimensionLists]

NoCube == [name |-> "none", dimensions |-> <<>>]

----------------------------------------------------------------------------
(* Model.add_dimension *)

\* mutant: the dimension replaces the one registered under its name
add_dimension_replace(dimensions, dimension) ==
    [dimensions |-> OD_set(dimensions, dimension.name, dimension),
     error |-> "none"]

\* mutant: the dimension is stored before the name check raises
add_dimension_store_first(dimensions, dimension) ==
    IF OD_has(dimensions, dimension.name)
    THEN [dimensions |-> OD_set(dimensions, dimension.name, dimension),
          error |-> "ModelInconsistencyError"]
    ELSE [dimensions |-> OD_set(dimensions, dimension.name, dimension),
          error |-> "none"]

add_dimension(dimensions, dimension) ==
    IF OD_has(dimensions, dimension.name)
    THEN [dimensions |-> dimensions, error |-> "ModelInconsistencyError"]
    ELSE [dimensions |-> OD_set(dimensions, dimension.name, dimension),
          error |-> "none"]

\* mutant: a dimension that collides by name is skipped, nothing is raised
RECURSIVE add_cube_loop_silent(_, _, _, _, _)
add_cube_loop_silent(dimensions, my_dimensions, my_dimension_names, cube, i) ==
    IF i > Len(cube.dimensions)
    THEN [dimensions |-> dimensions, error |-> "none"]
    ELSE LET dimension == cube.dimensions[i]
         IN  IF dimension \notin my_dimensions
                /\ dimension.name \notin my_dimension_names
             THEN add_cube_loop_silent(
                      OD_set(dimensions, dimension.name, dimension),
                      my_dimensions, my_dimension_names, cube, i + 1)
             ELSE add_cube_loop_silent(dimensions, my_dimensions,
                                       my_dimension_names, cube, i + 1)

\* mutant: dimensions are compared by name only, never by identity
RECURSIVE add_cube_loop_by_name(_, _, _, _, _)
add_cube_loop_by_name(dimensions, my_dimensions, my_dimension_names, cube, i) ==
    IF i > Len(cube.dimensions)
    THEN [dimensions |-> dimensions, error |-> "none"]
    ELSE LET dimension == cube.dimensions[i]
         IN  IF dimension.name \notin my_dimension_names
             THEN add_cube_loop_by_name(
                      OD_set(dimensions, dimension.name, dimension),
                      my_dimensions, my_dimension_names, cube, i + 1)
             ELSE [dimensions |-> dimensions, error |-> "ModelError"]

(* Model.add_cube: the loop over cube.dimensions, from index i on.          *)
(* my_dimensions and my_dimension_names are taken before the loop.          *)
RECURSIVE add_cube_loop(_, _, _, _, _)
add_cube_loop(dimensions, my_dimensions, my_dimension_names, cube, i) ==
    IF i > Len(cube.dimensions)
    THEN [dimensions |-> dimensions, error |-> "none"]
    ELSE LET dimension == cube.dimensions[i]
         IN  IF dimension \notin my_dimensions
             THEN IF dimension.name \notin my_dimension_names
                  THEN LET r == add_dimension(dimensions, dimension)
                       IN  IF r.error # "none"
                           THEN r
                           ELSE add_cube_loop(r.dimensions, my_dimensions,
                                              my_dimension_names, cube, i + 1)
                  ELSE [dimensions |-> dimensions, error |-> "ModelError"]
             ELSE add_cube_loop(dimensions, my_dimensions,
                                my_dimension_names, cube, i + 1)

add_cube(dimensions, cubes, cube) ==
    LET my_dimensions == Range(OD_values(dimensions))
        my_dimension_names == {dim.name : dim \in my_dimensions}
        r == add_cube_loop(dimensions, my_dimensions, my_dimension_names,
                           cube, 1)
    IN  IF r.error # "none"
        THEN [dimensions |-> r.dimensions, cubes |-> cubes, error |-> r.error]
        ELSE [dimensions |-> r.dimensions,
              cubes |-> OD_set(cubes, cube.name, cube),
              error |-> "none"]

----------------------------------------------------------------------------
(* Measure, MeasureAggregate, Attribute and Cube.__init__ *)

MaxMeasures == 2
MaxFunctions == 2
MaxAggregates == 2
MaxCubeDetails == 2

MeasureNames == {<<"a">>, <<"a", "_", "b">>, <<"b">>}
FunctionNames == {<<"c">>, <<"b", "_", "c">>}
AggregateNames == {<<"a", "_", "c">>, <<"n">>}

Sum == <<"s", "u", "m">>
DetailNames == {<<"a">>, <<"c">>}

ListsOf(S, n) == UNION {[1..k -> S] : k \in 0..n}

\* metadata of a measure: its name and, optionally, its aggregate functions
MeasureMetadata ==
    [name : MeasureNames,
     aggregates : {None} \cup {Some(fs) : fs \in ListsOf(FunctionNames, MaxFunctions)}]

\* metadata of a measure given by its name alone
PlainMeasures == [name : MeasureNames, aggregates : {None}]

\* metadata of an explicit aggregate: its name, optionally its source measure
AggregateMetadata ==
    [name : AggregateNames,
     measure : {None, Some(<<>>)} \cup {Some(m) : m \in MeasureNames},
     function : {Some(Sum)}]

\* Measure(**md)
Measure(md) == [name |-> md.name, aggregates |-> md.aggregates]

\* MeasureAggregate(**md)
MeasureAggregate(md) ==
    [name |-> md.name, measure |-> md.measure, function |-> md.function]

\* Attribute(name): no dimension (0 stands for None)
Attribute(name) == [name |-> name, dimension |-> 0]

\* attribute_list(attributes, class_), per class
measure_attribute_list(measures) ==
    [i \in 1..Len(measures) |-> Measure(measures[i])]

aggregate_attribute_list(aggregates) ==
    [i \in 1..Len(aggregates) |-> MeasureAggregate(aggregates[i])]

detail_attribute_list(details) ==
    [i \in 1..Len(details) |-> Attribute(details[i])]

(* Measure.default_aggregates: one aggregate per function of the measure, *)
(* or the single aggregate `sum`                                           *)
default_aggregates(measure) ==
    LET functions == IF Truthy(measure.aggregates)
                     THEN measure.aggregates.value
                     ELSE <<Sum>>
    IN  [i \in 1..Len(functions) |->
            [name |-> measure.name \o Underscore \o functions[i],
             measure |-> Some(measure.name),
             function |-> Some(functions[i])]]

\* aggregates += measure.default_aggregates(), for measures[i] on
RECURSIVE all_default_aggregates(_, _)
all_default_aggregates(measures, i) ==
    IF i > Len(measures)
    THEN <<>>
    ELSE default_aggregates(measures[i])
            \o all_default_aggregates(measures, i + 1)

\* mutant: an aggregate without a source measure is looked up as well
unknown_measure_no_guard(aggregates, measures) ==
    \E i \in 1..Len(aggregates) :
        \/ ~aggregates[i].measure.some
        \/ ~OD_has(measures, aggregates[i].measure.value)

\* some aggregate names a measure that is no key of self._measures
unknown_measure(aggregates, measures) ==
    \E i \in 1..Len(aggregates) :
        /\ Truthy(aggregates[i].measure)
        /\ ~OD_has(measures, aggregates[i].measure.value)

\* Cube.add_dimension, for dimensions[i] on; a cube holds references (ids)
RECURSIVE cube_add_dimensions(_, _, _)
cube_add_dimensions(od, dimensions, i) ==
    IF i > Len(dimensions)
    THEN [dimensions |-> od, error |-> "none"]
    ELSE IF OD_has(od, dimensions[i].name)
         THEN [dimensions |-> od, error |-> "ModelError"]
         ELSE cube_add_dimensions(
                  OD_set(od, dimensions[i].name, dimensions[i].id),
                  dimensions, i + 1)

NoCubeObject(error) ==
    [error |-> error, dimensions |-> <<>>, measures |-> <<>>,
     aggregates |-> <<>>, details |-> <<>>]

(* Cube.__init__(name, dimensions, measures, aggregates, details):         *)
(* aggregates is None or Some(list of metadata)                            *)
Cube_init(dimensions, measures, aggregates, details) ==
    LET dims == cube_add_dimensions(<<>>, dimensions, 1)
        _measures == OD_update(<<>>, NamePairs(measure_attribute_list(measures)), 1)
        explicit == aggregate_attribute_list(aggregates.value)
        derived == all_default_aggregates(OD_values(_measures), 1)
    IN  IF dims.error # "none"
        THEN NoCubeObject(dims.error)
        ELSE IF aggregates.some /\ unknown_measure(explicit, _measures)
        THEN NoCubeObject("NoSuchAttributeError")
        ELSE [error |-> "none",
              dimensions |-> dims.dimensions,
              measures |-> _measures,
              aggregates |-> OD_update(<<>>,
                                 NamePairs(IF aggregates.some
                                           THEN explicit ELSE derived), 1),
              details |-> detail_attribute_list(details)]

(* Cube.measure_aggregate(name): the object under the name in _measures.   *)
(* An object of a cube is told by its class and name.                      *)
measure_aggregate(cube, name) ==
    IF OD_has(cube.measures, name)
    THEN [error |-> "none", result |-> <<[class |-> "Measure", name |-> name]>>]
    ELSE [error |-> "NoSuchAttributeError", result |-> <<>>]

(* Cube.aggregates_for_measure(name):                                      *)
(* [agg for agg in self.aggregates if agg.name == name]                    *)
RECURSIVE aggregates_for_measure(_, _)
aggregates_for_measure(aggregates, name) ==
    IF aggregates = <<>>
    THEN <<>>
    ELSE (IF Head(aggregates).name = name
          THEN <<[class |-> "MeasureAggregate", name |-> Head(aggregates).name]>>
          ELSE <<>>)
         \o aggregates_for_measure(Tail(aggregates), name)

NoArgs == [dimensions |-> <<>>, measures |-> <<>>, aggregates |-> None,
           details |-> <<>>]

----------------------------------------------------------------------------
(* Level, Dimension and Attribute.ref *)

MaxLevels == 2
MaxAttributes == 2
MaxDetails == 1
MaxCubeMeasures == 1

RefDimensionNames == {<<"d">>}
LevelNames == {<<"l">>, <<"m">>}
AttributeNames == {<<"a">>, <<"d">>}

Dot == <<".">>

(* Level.__init__(name, attributes): the attributes are made from their    *)
(* names and get the level's dimension, which is None                      *)
Level(name, attributes) ==
    [name |-> name,
     attributes |-> [i \in 1..Len(attributes) |->
                        [Attribute(attributes[i]) EXCEPT !.dimension = 0]]]

\* a level is given by its name and a non-empty list of attribute names
LevelObjects ==
    {Level(name, attributes) :
        name \in LevelNames,
        attributes \in ListsOf(AttributeNames, MaxAttributes) \ {<<>>}}

\* (a.name, a) for the attributes a of levels[li] on; an attribute object is
\* pointed to by <<index of its level, index in the level>>
RECURSIVE attribute_pairs(_, _)
attribute_pairs(levels, li) ==
    IF li > Len(levels)
    THEN <<>>
    ELSE [ai \in 1..Len(levels[li].attributes) |->
             [key |-> levels[li].attributes[ai].name, value |-> <<li, ai>>]]
         \o attribute_pairs(levels, li + 1)

(* Dimension._set_levels: _levels by level name, _attributes by attribute  *)
(* name, and the dimension of every attribute in _attributes set to self   *)
Dimension_set_levels(self, levels) ==
    LET _levels == OD_update(<<>>, NamePairs(levels), 1)
        _attributes == OD_update(<<>>, attribute_pairs(OD_values(_levels), 1), 1)
        owned == Range(OD_values(_attributes))
        claim(li, attributes) ==
            [ai \in 1..Len(attributes) |->
                IF <<li, ai>> \in owned
                THEN [attributes[ai] EXCEPT !.dimension = self]
                ELSE attributes[ai]]
    IN  [levels |-> [li \in 1..Len(_levels) |->
                        [key |-> _levels[li].key,
                         value |-> [name |-> _levels[li].value.name,
                                    attributes |->
                                        claim(li, _levels[li].value.attributes)]]],
         attributes |-> _attributes]

(* Hierarchy.__init__(name, levels) without a dimension: the level         *)
(* references are kept and resolved on the first use of the levels         *)
Hierarchy(id, name, levels) ==
    [id |-> id, name |-> name, dimension |-> 0, _level_refs |-> levels,
     _levels |-> None]

NoDimensionObject(error) ==
    [error |-> error, id |-> 0, name |-> <<>>, levels |-> <<>>,
     attributes |-> <<>>, hierarchies |-> <<>>,
     default_hierarchy_name |-> "", _flat_hierarchy |-> 0]

(* Dimension.__init__(name, levels, hierarchies, default_hierarchy_name);  *)
(* id is the identity of the new object.  No hierarchies, or an empty     *)
(* list: one hierarchy "default" over the levels of the dimension.  A     *)
(* default_hierarchy_name of "" stands for None (both are false).          *)
Dimension_init(id, name, levels, hierarchies, default_hierarchy_name) ==
    IF levels = <<>>
    THEN NoDimensionObject("ModelError")
    ELSE LET r == Dimension_set_levels(id, levels)
             given == IF hierarchies # <<>>
                      THEN OD_update(<<>>, NamePairs(hierarchies), 1)
                      ELSE <<[key |-> "default",
                              value |-> Hierarchy(1, "default",
                                                  OD_keys(r.levels))]>>
         IN  [error |-> "none", id |-> id, name |-> name,
              levels |-> r.levels, attributes |-> r.attributes,
              hierarchies |-> [i \in 1..Len(given) |->
                                  [key |-> given[i].key,
                                   value |-> [given[i].value
                                                 EXCEPT !.dimension = id]]],
              default_hierarchy_name |-> default_hierarchy_name,
              _flat_hierarchy |-> 0]

(* Hierarchy._set_levels(levels): the references are looked up with       *)
(* Dimension.level; an unknown name raises KeyError and leaves the levels *)
(* resolved so far in _levels                                              *)
RECURSIVE Hierarchy_resolve(_, _, _, _)
Hierarchy_resolve(dimension, levels, i, _levels) ==
    IF i > Len(levels)
    THEN [error |-> "none", _levels |-> _levels]
    ELSE IF ~OD_has(dimension.levels, levels[i])
         THEN [error |-> "KeyError", _levels |-> _levels]
         ELSE Hierarchy_resolve(dimension, levels, i + 1,
                                OD_set(_levels, levels[i], levels[i]))

Hierarchy_set_levels(dimension, hierarchy, levels) ==
    IF levels = <<>>
    THEN [error |-> "ModelInconsistencyError", hierarchy |-> hierarchy]
    ELSE LET r == Hierarchy_resolve(dimension, levels, 1, <<>>)
         IN  [error |-> r.error,
              hierarchy |-> [hierarchy EXCEPT !._levels = Some(r._levels)]]

(* Hierarchy.levels: resolves the references while _levels is None or     *)
(* empty                                                                   *)
Hierarchy_levels(dimension, hierarchy) ==
    IF ~Truthy(hierarchy._levels)
    THEN LET r == Hierarchy_set_levels(dimension, hierarchy,
                                       hierarchy._level_refs)
         IN  [error |-> r.error, hierarchy |-> r.hierarchy,
              levels |-> IF r.error = "none"
                         THEN OD_values(r.hierarchy._levels.value)
                         ELSE <<>>]
    ELSE [error |-> "none", hierarchy |-> hierarchy,
          levels |-> OD_values(hierarchy._levels.value)]

(* Hierarchy.levels_for_depth(depth, drilldown): depth None counts as 0;  *)
(* a depth beyond the levels raises HierarchyError.  Reading self.levels   *)
(* resolves the level references and leaves them in the hierarchy.         *)
levels_for_depth_truncated(dimension, hierarchy, depth, drilldown) ==
    LET wanted == (IF depth.some THEN depth.value ELSE 0)
                  + (IF drilldown THEN 1 ELSE 0)
        r == Hierarchy_levels(dimension, hierarchy)
    IN  IF r.error # "none"
        THEN [error |-> r.error, result |-> <<>>, hierarchy |-> r.hierarchy]
        ELSE [error |-> "none",
              result |-> SubSeq(r.levels, 1,
                                IF wanted > Len(r.levels)
                                THEN Len(r.levels) ELSE wanted),
              hierarchy |-> r.hierarchy]

levels_for_depth(dimension, hierarchy, depth, drilldown) ==
    LET wanted == (IF depth.some THEN depth.value ELSE 0)
                  + (IF drilldown THEN 1 ELSE 0)
        r == Hierarchy_levels(dimension, hierarchy)
    IN  IF r.error # "none"
        THEN [error |-> r.error, result |-> <<>>, hierarchy |-> r.hierarchy]
        ELSE IF wanted > Len(r.levels)
        THEN [error |-> "HierarchyError", result |-> <<>>,
              hierarchy |-> r.hierarchy]
        ELSE [error |-> "none", result |-> SubSeq(r.levels, 1, wanted),
              hierarchy |-> r.hierarchy]

\* Hierarchy.levels_for_path(path, drilldown): an empty path or None is
\* depth 0
levels_for_path(dimension, hierarchy, path, drilldown) ==
    levels_for_depth(dimension, hierarchy,
                     Some(IF ~Truthy(path) THEN 0 ELSE Len(path.value)),
                     drilldown)

\* Hierarchy.level_index(level): the position of the level, counted from 0;
\* reading self.levels_dict resolves the level references
level_index(dimension, hierarchy, level) ==
    LET r == Hierarchy_levels(dimension, hierarchy)
    IN  IF r.error # "none"
        THEN [error |-> r.error, index |-> 0, hierarchy |-> r.hierarchy]
        ELSE IF level \notin Range(r.levels)
        THEN [error |-> "HierarchyError", index |-> 0,
              hierarchy |-> r.hierarchy]
        ELSE [error |-> "none",
              index |-> (CHOOSE i \in 1..Len(r.levels) : r.levels[i] = level) - 1,
              hierarchy |-> r.hierarchy]

(* Hierarchy.rollup(path, level): the path up to the level, or without    *)
(* its last element when no level is given (<<>> stands for None);        *)
(* len(path) of the path None raises TypeError.  Only the call with a     *)
(* level reads the levels of the hierarchy.                                *)
rollup_unchecked(dimension, hierarchy, path, level) ==
    IF level # <<>>
    THEN LET r == level_index(dimension, hierarchy, level)
         IN  IF r.error # "none"
             THEN [error |-> r.error, result |-> <<>>,
                   hierarchy |-> r.hierarchy]
             ELSE IF ~path.some
             THEN [error |-> "TypeError", result |-> <<>>,
                   hierarchy |-> r.hierarchy]
             ELSE [error |-> "none",
                   result |-> SubSeq(path.value, 1,
                                     IF r.index + 1 > Len(path.value)
                                     THEN Len(path.value) ELSE r.index + 1),
                   hierarchy |-> r.hierarchy]
    ELSE IF ~path.some
    THEN [error |-> "TypeError", result |-> <<>>, hierarchy |-> hierarchy]
    ELSE [error |-> "none",
          result |-> SubSeq(path.value, 1, Len(path.value) - 1),
          hierarchy |-> hierarchy]

rollup(dimension, hierarchy, path, level) ==
    IF level # <<>>
    THEN LET r == level_index(dimension, hierarchy, level)
         IN  IF r.error # "none"
             THEN [error |-> r.error, result |-> <<>>,
                   hierarchy |-> r.hierarchy]
             ELSE IF ~path.some
             THEN [error |-> "TypeError", result |-> <<>>,
                   hierarchy |-> r.hierarchy]
             ELSE IF r.index + 1 > Len(path.value)
             THEN [error |-> "HierarchyError", result |-> <<>>,
                   hierarchy |-> r.hierarchy]
             ELSE [error |-> "none",
                   result |-> SubSeq(path.value, 1, r.index + 1),
                   hierarchy |-> r.hierarchy]
    ELSE IF ~path.some
    THEN [error |-> "TypeError", result |-> <<>>, hierarchy |-> hierarchy]
    ELSE [error |-> "none",
          result |-> SubSeq(path.value, 1, Len(path.value) - 1),
          hierarchy |-> hierarchy]

\* mutant: with several hierarchies and no default the first one is taken
default_hierarchy_arbitrary(dimension) ==
    LET hierarchy_name == IF dimension.default_hierarchy_name # ""
                          THEN dimension.default_hierarchy_name
                          ELSE "default"
    IN  IF OD_has(dimension.hierarchies, hierarchy_name)
        THEN [error |-> "none",
              hierarchy |-> OD_get(dimension.hierarchies, hierarchy_name).id,
              dimension |-> dimension]
        ELSE IF Len(dimension.hierarchies) >= 1
        THEN [error |-> "none", hierarchy |-> dimension.hierarchies[1].value.id,
              dimension |-> dimension]
        ELSE [error |-> "ModelError", hierarchy |-> 0, dimension |-> dimension]

(* Dimension._default_hierarchy: the outcome, the identity of the          *)
(* hierarchy returned and the dimension after the call.  `not hierarchy`  *)
(* is None or len(hierarchy) = 0, and len() resolves the levels of the    *)
(* hierarchy.  With no hierarchies and one level the names `level` and    *)
(* `levels` are read, which are not defined: NameError.                    *)
default_hierarchy(dimension) ==
    LET hierarchy_name == IF dimension.default_hierarchy_name # ""
                          THEN dimension.default_hierarchy_name
                          ELSE "default"
        found == OD_has(dimension.hierarchies, hierarchy_name)
        hierarchy == OD_get(dimension.hierarchies, hierarchy_name)
        len == Hierarchy_levels(dimension, hierarchy)
        after == [dimension EXCEPT !.hierarchies =
                     OD_set(@, hierarchy_name, len.hierarchy)]
    IN  IF found /\ len.error # "none"
        THEN [error |-> len.error, hierarchy |-> 0, dimension |-> after]
        ELSE IF found /\ Len(len.levels) # 0
        THEN [error |-> "none", hierarchy |-> hierarchy.id, dimension |-> after]
        ELSE LET d == IF found THEN after ELSE dimension
             IN  IF Len(d.hierarchies) = 1
                 THEN [error |-> "none", hierarchy |-> d.hierarchies[1].value.id,
                       dimension |-> d]
                 ELSE IF Len(d.hierarchies) = 0
                 THEN IF Len(OD_values(d.levels)) = 1
                      THEN [error |-> "NameError", hierarchy |-> 0,
                            dimension |-> d]
                      ELSE [error |-> "ModelError", hierarchy |-> 0,
                            dimension |-> d]
                 ELSE [error |-> "ModelError", hierarchy |-> 0, dimension |-> d]

(* Dimension.hierarchy(obj) with obj = None, the default of the parameter *)
Dimension_hierarchy(dimension) == default_hierarchy(dimension)

\* Dimension.is_flat
is_flat(dimension) == Len(OD_values(dimension.levels)) = 1

\* Level.has_details
Level_has_details(level) == Len(level.attributes) > 1

\* Dimension.has_details
has_details(dimension) ==
    \E i \in 1..Len(dimension.levels) :
        Level_has_details(dimension.levels[i].value)

\* Dimension.all_attributes: the objects of _attributes, in order
all_attributes(dimension) ==
    [i \in 1..Len(dimension.attributes) |->
        LET pointer == dimension.attributes[i].value
        IN  dimension.levels[pointer[1]].value.attributes[pointer[2]]]

\* mutant: the details of the dimension are not looked at
Attribute_ref_flat_only(attribute, simplify, objects) ==
    IF attribute.dimension # 0
    THEN LET dimension == objects[attribute.dimension]
         IN  IF simplify /\ is_flat(dimension)
             THEN dimension.name
             ELSE dimension.name \o Dot \o attribute.name
    ELSE attribute.name

(* Attribute.ref(simplify, locale=None); objects[id] is the dimension      *)
(* object of identity id                                                   *)
Attribute_ref(attribute, simplify, objects) ==
    IF attribute.dimension # 0
    THEN LET dimension == objects[attribute.dimension]
         IN  IF simplify /\ (is_flat(dimension) /\ ~has_details(dimension))
             THEN dimension.name
             ELSE dimension.name \o Dot \o attribute.name
    ELSE attribute.name

\* AttributeBase.ref, of measures and aggregates
AttributeBase_ref(attribute) == attribute.name

----------------------------------------------------------------------------
(* validate(): a diagnostic is (severity, message); the message is kept as *)
(* its kind and the names it mentions                                      *)

Diagnostic(severity, message, attribute, level, other) ==
    [severity |-> severity, message |-> message, attribute |-> attribute,
     level |-> level, other |-> other]

\* the attributes of the levels in _levels order, each with its level name
RECURSIVE level_attributes(_, _)
level_attributes(levels, li) ==
    IF li > Len(levels)
    THEN <<>>
    ELSE [ai \in 1..Len(levels[li].value.attributes) |->
             [level_name |-> levels[li].key,
              attribute |-> levels[li].value.attributes[ai]]]
         \o level_attributes(levels, li + 1)

(* Dimension.validate, the loop over the levels and their attributes: an  *)
(* attribute whose ref() was seen before is a duplicate, reported with    *)
(* the level where the ref() was first seen; an attribute whose dimension *)
(* is not this dimension is reported.  Every level has attributes and its *)
(* key is its first attribute, so the checks of the key report nothing.   *)
(* objects[id] is the dimension object of identity id: an attribute can   *)
(* belong to another dimension than the one under validation, and ref()   *)
(* reads the name and the levels of the dimension it belongs to.          *)
validate_attributes(dimension, objects) ==
    LET all == level_attributes(dimension.levels, 1)
        attr_name(k) == Attribute_ref(all[k].attribute, TRUE, objects)
        of(k) ==
            (IF \E j \in 1..(k - 1) : attr_name(j) = attr_name(k)
             THEN LET first == CHOOSE j \in 1..(k - 1) :
                                  /\ attr_name(j) = attr_name(k)
                                  /\ \A h \in 1..(j - 1) :
                                        attr_name(h) # attr_name(k)
                  IN  <<Diagnostic("error", "Duplicate attribute",
                                   all[k].attribute.name, all[k].level_name,
                                   all[first].level_name)>>
             ELSE <<>>)
            \o (IF all[k].attribute.dimension # dimension.id
                THEN <<Diagnostic("error", "Dimension of attribute does not match",
                                  all[k].attribute.name, <<>>, <<>>)>>
                ELSE <<>>)
        upto[k \in 0..Len(all)] == IF k = 0 THEN <<>> ELSE upto[k - 1] \o of(k)
    IN  upto[Len(all)]

(* Dimension.validate, the checks of the hierarchies *)
validate_hierarchies(dimension) ==
    IF dimension.hierarchies = <<>>
    THEN IF is_flat(dimension)
         THEN <<Diagnostic("default", "No hierarchies, flat level will be used",
                           <<>>, dimension.levels[1].value.name, <<>>)>>
         ELSE IF Len(OD_values(dimension.levels)) > 1
         THEN <<Diagnostic("error", "No hierarchies, more than one levels exist",
                           <<>>, <<>>, <<>>)>>
         ELSE <<Diagnostic("error", "No hierarchies", <<>>, <<>>, <<>>)>>
    ELSE IF /\ dimension.default_hierarchy_name = ""
            /\ Len(dimension.hierarchies) > 1
            /\ ~OD_has(dimension.hierarchies, "default")
         THEN <<Diagnostic("error", "No default hierarchy specified",
                           <<>>, <<>>, <<>>)>>
         ELSE <<>>

(* Dimension.validate: the error raised, the diagnostics and the          *)
(* dimension after the call.  `not self.hierarchies.get(name)` takes the  *)
(* length of the hierarchy found, which resolves its levels and can      *)
(* raise.  objects[id] is the dimension object of identity id.            *)
Dimension_validate(dimension, objects) ==
    IF Len(OD_values(dimension.levels)) = 0
    THEN [error |-> "none", dimension |-> dimension,
          results |-> <<Diagnostic("error", "No levels", <<>>, <<>>, <<>>)>>]
    ELSE LET name == dimension.default_hierarchy_name
             found == name # "" /\ OD_has(dimension.hierarchies, name)
             len == Hierarchy_levels(dimension, OD_get(dimension.hierarchies, name))
             after == IF found
                      THEN [dimension EXCEPT !.hierarchies =
                               OD_set(@, name, len.hierarchy)]
                      ELSE dimension
             missing == IF name # "" /\ (~found \/ Len(len.levels) = 0)
                        THEN <<Diagnostic("error", "Default hierarchy does not exist",
                                          <<>>, <<>>, <<>>)>>
                        ELSE <<>>
         IN  IF found /\ len.error # "none"
             THEN [error |-> len.error, dimension |-> after, results |-> <<>>]
             ELSE [error |-> "none", dimension |-> after,
                   results |-> validate_hierarchies(dimension) \o missing
                               \o validate_attributes(after, objects)]

\* isinstance(obj, Attribute) for an object of class class_: Measure and
\* MeasureAggregate derive from AttributeBase, not from Attribute
isinstance_Attribute(class_) == class_ = "Attribute"

\* mutant: a measure that is no Attribute instance is passed over without
\* a diagnostic
Cube_validate_measures_skipped(cube) ==
    LET cube_measures == OD_values(cube.measures)
        measures == {cube_measures[i].name : i \in
                        {j \in 1..Len(cube_measures) :
                            isinstance_Attribute("Measure")}}
        details(k) == {cube.details[j].name : j \in
                          {h \in 1..k : /\ cube.details[h].name \notin measures
                                        /\ \A g \in 1..(h - 1) :
                                              cube.details[g].name
                                                 # cube.details[h].name}}
        detail_results ==
            [i \in 1..Len(cube.details) |->
                (IF ~isinstance_Attribute("Attribute")
                 THEN <<Diagnostic("error", "Detail is not instance of Attribute",
                                   cube.details[i].name, <<>>, <<>>)>>
                 ELSE <<>>)
                \o (IF cube.details[i].name \in details(i - 1)
                    THEN <<Diagnostic("error", "Duplicate detail",
                                      cube.details[i].name, <<>>, <<>>)>>
                    ELSE IF cube.details[i].name \in measures
                    THEN <<Diagnostic("error",
                                      "Duplicate detail - specified also as measure",
                                      cube.details[i].name, <<>>, <<>>)>>
                    ELSE <<>>)]
        flat[k \in 0..Len(cube.details)] ==
            IF k = 0 THEN <<>> ELSE flat[k - 1] \o detail_results[k]
    IN  flat[Len(cube.details)]

(* Cube.validate: the measures of a cube are Measure objects and its      *)
(* details Attribute objects (attribute_list in Cube.__init__).  Only the *)
(* names of the measures that are Attribute instances are collected.      *)
Cube_validate(cube) ==
    LET cube_measures == OD_values(cube.measures)
        measure_results ==
            [i \in 1..Len(cube_measures) |->
                IF ~isinstance_Attribute("Measure")
                THEN <<Diagnostic("error", "Measure is not instance of Attribute",
                                  cube_measures[i].name, <<>>, <<>>)>>
                ELSE <<>>]
        measures == {cube_measures[i].name : i \in
                        {j \in 1..Len(cube_measures) :
                            isinstance_Attribute("Measure")}}
        details(k) == {cube.details[j].name : j \in
                          {h \in 1..k : /\ cube.details[h].name \notin measures
                                        /\ \A g \in 1..(h - 1) :
                                              cube.details[g].name
                                                 # cube.details[h].name}}
        detail_results ==
            [i \in 1..Len(cube.details) |->
                (IF ~isinstance_Attribute("Attribute")
                 THEN <<Diagnostic("error", "Detail is not instance of Attribute",
                                   cube.details[i].name, <<>>, <<>>)>>
                 ELSE <<>>)
                \o (IF cube.details[i].name \in details(i - 1)
                    THEN <<Diagnostic("error", "Duplicate detail",
                                      cube.details[i].name, <<>>, <<>>)>>
                    ELSE IF cube.details[i].name \in measures
                    THEN <<Diagnostic("error",
                                      "Duplicate detail - specified also as measure",
                                      cube.details[i].name, <<>>, <<>>)>>
                    ELSE <<>>)]
        flat[k \in 0..Len(cube_measures) + Len(cube.details)] ==
            IF k = 0 THEN <<>>
            ELSE flat[k - 1] \o (IF k <= Len(cube_measures)
                                 THEN measure_results[k]
                                 ELSE detail_results[k - Len(cube_measures)])
    IN  flat[Len(cube_measures) + Len(cube.details)]

\* Model.validate, the loop `for dim in self.dimensions`; objects[id] is
\* the dimension object of identity id
RECURSIVE validate_dimensions(_, _, _)
validate_dimensions(dimensions, i, objects) ==
    IF i > Len(dimensions)
    THEN [error |-> "none", results |-> <<>>, dimensions |-> dimensions]
    ELSE LET r == Dimension_validate(dimensions[i], objects)
             after == [dimensions EXCEPT ![i] = r.dimension]
         IN  IF r.error # "none"
             THEN [error |-> r.error, results |-> <<>>, dimensions |-> after]
             ELSE LET rest == validate_dimensions(after, i + 1, objects)
                  IN  [error |-> rest.error,
                       results |-> IF rest.error = "none"
                                   THEN r.results \o rest.results
                                   ELSE <<>>,
                       dimensions |-> rest.dimensions]

\* Model.validate, the loop over self.cubes
RECURSIVE validate_cubes(_, _)
validate_cubes(cubes, i) ==
    IF i > Len(cubes)
    THEN <<>>
    ELSE Cube_validate(cubes[i]) \o validate_cubes(cubes, i + 1)

(* Model.validate of a model with the given dimension and cube objects;   *)
(* every registered dimension is a Dimension, so the check of the classes *)
(* reports nothing.  objects[id] is the dimension object of identity id.  *)
Model_validate(dimensions, cubes, objects) ==
    LET r == validate_dimensions(dimensions, 1, objects)
    IN  IF r.error # "none"
        THEN r
        ELSE [error |-> "none",
              results |-> r.results \o
                          (IF cubes = <<>>
                           THEN <<Diagnostic("warning", "No cubes defined",
                                             <<>>, <<>>, <<>>)>>
                           ELSE validate_cubes(cubes, 1)),
              dimensions |-> r.dimensions]

\* mutant: strict counts warnings and errors only
is_valid_without_default(results, strict) ==
    IF results = <<>>
    THEN TRUE
    ELSE IF strict
    THEN ~\E i \in 1..Len(results) : results[i].severity \in {"warning", "error"}
    ELSE ~\E i \in 1..Len(results) : results[i].severity = "error"

\* Model.is_valid(strict), on the list that self.validate() returned
is_valid(results, strict) ==
    IF results = <<>>
    THEN TRUE
    ELSE IF strict
    THEN FALSE
    ELSE ~\E i \in 1..Len(results) : results[i].severity = "error"

----------------------------------------------------------------------------
(* Objects with identity: Model.localize copies the model with            *)
(* copy.deepcopy and writes labels into the copy, so objects are kept in  *)
(* a sequence and referred to by their index (0 is None)                  *)

Obj(class, name) ==
    [class |-> class, name |-> name, label |-> <<>>, description |-> <<>>,
     locale |-> <<>>, dimension |-> 0, cubes |-> <<>>, dimensions |-> <<>>,
     measures |-> <<>>, aggregates |-> <<>>, details |-> <<>>,
     levels |-> <<>>, attributes |-> <<>>, hierarchies |-> <<>>]

\* the label and description given to the constructors of the source model
SourceLabel(name) == <<"label of">> \o name
SourceDescription(name) == <<"description of">> \o name

\* ids first + 1 .. first + n
Refs(first, n) == [i \in 1..n |-> first + i]

(* Model(cubes=[cube], dimensions=[dimension]) with the cube on the        *)
(* dimension, every object constructed with a label (and a description    *)
(* where the constructor takes one).  Order: the model, the cube, its      *)
(* measures, aggregates and details, the dimension, its hierarchies, its   *)
(* levels, the attributes of the levels.                                   *)
ModelObjects(cube, dimension) ==
    LET ms == OD_values(cube.measures)
        as == OD_values(cube.aggregates)
        ds == cube.details
        hs == OD_values(dimension.hierarchies)
        ls == OD_values(dimension.levels)
        all == level_attributes(dimension.levels, 1)
        dim_id == 2 + Len(ms) + Len(as) + Len(ds) + 1
        level_id(li) == dim_id + Len(hs) + li
        offset(li) == Len(level_attributes(SubSeq(dimension.levels, 1, li - 1), 1))
        attribute_id(li, ai) == dim_id + Len(hs) + Len(ls) + offset(li) + ai
        labelled(class, name) ==
            [Obj(class, name) EXCEPT !.label = SourceLabel(name),
                                     !.description = SourceDescription(name)]
    IN  <<[labelled("Model", <<"model">>) EXCEPT !.cubes = <<2>>,
                                                  !.dimensions = <<dim_id>>],
          [labelled("Cube", <<"c">>) EXCEPT
              !.dimensions = <<dim_id>>,
              !.measures = Refs(2, Len(ms)),
              !.aggregates = Refs(2 + Len(ms), Len(as)),
              !.details = Refs(2 + Len(ms) + Len(as), Len(ds))]>>
        \o [i \in 1..Len(ms) |-> labelled("Measure", ms[i].name)]
        \o [i \in 1..Len(as) |->
               [Obj("MeasureAggregate", as[i].name) EXCEPT
                   !.label = SourceLabel(as[i].measure.value)
                                \o <<"-">> \o as[i].function.value,
                   !.description = SourceDescription(as[i].measure.value)]]
        \o [i \in 1..Len(ds) |-> labelled("Attribute", ds[i].name)]
        \o <<[labelled("Dimension", dimension.name) EXCEPT
                 !.hierarchies = Refs(dim_id, Len(hs)),
                 !.levels = Refs(dim_id + Len(hs), Len(ls)),
                 !.attributes =
                     [k \in 1..Len(dimension.attributes) |->
                         attribute_id(dimension.attributes[k].value[1],
                                      dimension.attributes[k].value[2])]]>>
        \o [i \in 1..Len(hs) |->
               [Obj("Hierarchy", <<hs[i].name>>) EXCEPT
                   !.dimension = dim_id,
                   !.levels = Refs(dim_id + Len(hs), Len(ls))]]
        \o [li \in 1..Len(ls) |->
               [Obj("Level", ls[li].name) EXCEPT
                   !.label = SourceLabel(ls[li].name),
                   !.attributes = [ai \in 1..Len(ls[li].attributes) |->
                                      attribute_id(li, ai)]]]
        \o [k \in 1..Len(all) |->
               [labelled("Attribute", all[k].attribute.name) EXCEPT
                   !.dimension = IF all[k].attribute.dimension = 0
                                 THEN 0 ELSE dim_id]]

(* copy.deepcopy(model): every object gets a copy, appended in the same   *)
(* order, so the copy of object i is object i + Len(objects); the memo    *)
(* makes every reference to one object lead to one copy                   *)
deepcopy_ref_shared_attributes(objects, id) ==
    IF id = 0 \/ objects[id].class = "Attribute" THEN id ELSE id + Len(objects)

deepcopy_ref(objects, id) ==
    IF id = 0 THEN 0 ELSE id + Len(objects)

deepcopy_refs(objects, ids) ==
    [i \in 1..Len(ids) |-> deepcopy_ref(objects, ids[i])]

(* The copy of one object.  Model, Cube, Dimension and Hierarchy have no  *)
(* __deepcopy__: every field is copied, references to the copies.         *)
(* Measure, MeasureAggregate and Attribute construct a new object with    *)
(* the label and description; the new Attribute is given the dimension of *)
(* the source attribute itself.  Level constructs a new level on the      *)
(* copies of its attributes, with the label, without a dimension.         *)
deepcopy_object(objects, id) ==
    LET self == objects[id]
    IN  CASE self.class \in {"Measure", "MeasureAggregate"} ->
                [Obj(self.class, self.name) EXCEPT
                    !.label = self.label, !.description = self.description]
          [] self.class = "Attribute" ->
                [Obj(self.class, self.name) EXCEPT
                    !.label = self.label, !.description = self.description,
                    !.dimension = self.dimension]
          [] self.class = "Level" ->
                [Obj(self.class, self.name) EXCEPT
                    !.label = self.label,
                    !.attributes = deepcopy_refs(objects, self.attributes)]
          [] OTHER ->
                [self EXCEPT
                    !.dimension = deepcopy_ref(objects, self.dimension),
                    !.cubes = deepcopy_refs(objects, self.cubes),
                    !.dimensions = deepcopy_refs(objects, self.dimensions),
                    !.measures = deepcopy_refs(objects, self.measures),
                    !.aggregates = deepcopy_refs(objects, self.aggregates),
                    !.details = deepcopy_refs(objects, self.details),
                    !.levels = deepcopy_refs(objects, self.levels),
                    !.attributes = deepcopy_refs(objects, self.attributes),
                    !.hierarchies = deepcopy_refs(objects, self.hierarchies)]

(* Level.__init__, called by Level.__deepcopy__ without a dimension, sets *)
(* the dimension of every attribute it is given to None                   *)
deepcopy(objects) ==
    LET copies == [id \in 1..Len(objects) |-> deepcopy_object(objects, id)]
        all == objects \o copies
        initialized ==
            UNION {Range(deepcopy_refs(objects, objects[id].attributes)) :
                      id \in {i \in 1..Len(objects) : objects[i].class = "Level"}}
    IN  [id \in 1..Len(all) |->
            IF id \in initialized
            THEN [all[id] EXCEPT !.dimension = 0]
            ELSE all[id]]

(* Translations.  An entry is a string (the label) or a dictionary with   *)
(* an optional "label" and an optional "description".                     *)
StringEntry(label) ==
    [kind |-> "string", has_label |-> TRUE, label |-> label,
     has_description |-> FALSE, description |-> <<>>]

DictEntry(has_label, label, has_description, description) ==
    [kind |-> "dict", has_label |-> has_label,
     label |-> IF has_label THEN label ELSE <<>>,
     has_description |-> has_description,
     description |-> IF has_description THEN description ELSE <<>>]

\* localize_common(obj, trans)
localize_common_label_only(obj, trans) ==
    IF trans.kind = "string" \/ trans.has_label
    THEN [obj EXCEPT !.label = trans.label]
    ELSE obj

localize_common(obj, trans) ==
    IF trans.kind = "string"
    THEN [obj EXCEPT !.label = trans.label]
    ELSE [obj EXCEPT
             !.label = IF trans.has_label THEN trans.label ELSE @,
             !.description = IF trans.has_description
                             THEN trans.description ELSE @]

(* for attrib in <list>: if attrib.name in attr_locales:                  *)
(*     localize_common(attrib, attr_locales[attrib.name])                 *)
localize_each(objects, ids, attr_locales) ==
    [id \in 1..Len(objects) |->
        IF id \in Range(ids) /\ OD_has(attr_locales, objects[id].name)
        THEN localize_common(objects[id], OD_get(attr_locales, objects[id].name))
        ELSE objects[id]]

\* Cube.localize(locale)
Cube_localize(objects, self, locale) ==
    LET common == [objects EXCEPT ![self] = localize_common(@, locale.common)]
        measures == localize_each(common, common[self].measures, locale.measures)
        aggregates == localize_each(measures, measures[self].aggregates,
                                    locale.aggregates)
    IN  localize_each(aggregates, aggregates[self].details, locale.details)

(* Level.localize(locale): a string is the label and nothing else; the   *)
(* deprecated "attributes" of a dictionary are read when the key is there *)
(* and its dictionary is not empty                                         *)
Level_localize(objects, self, locale) ==
    LET common == [objects EXCEPT ![self] = localize_common(@, locale.common)]
    IN  IF locale.common.kind = "string"
        THEN common
        ELSE IF locale.has_attributes /\ locale.attributes # <<>>
        THEN localize_each(common, common[self].attributes, locale.attributes)
        ELSE common

(* the truth value of the translation of a level: a non-empty string or a *)
(* dictionary with at least one key, be it "attributes" with an empty     *)
(* dictionary                                                              *)
Truthy_level_locale(locale) ==
    IF locale.common.kind = "string"
    THEN locale.common.label # <<>>
    ELSE \/ locale.common.has_label
         \/ locale.common.has_description
         \/ locale.has_attributes

\* for level in self.levels, from levels[i] on
RECURSIVE localize_levels(_, _, _, _)
localize_levels(objects, levels, i, level_locales) ==
    IF i > Len(levels)
    THEN objects
    ELSE LET name == objects[levels[i]].name
         IN  localize_levels(
                 IF OD_has(level_locales, name)
                    /\ Truthy_level_locale(OD_get(level_locales, name))
                 THEN Level_localize(objects, levels[i],
                                     OD_get(level_locales, name))
                 ELSE objects,
                 levels, i + 1, level_locales)

(* Dimension.localize(locale): the dimension, all_attributes() and the    *)
(* levels.  The translations of the hierarchies are read under the key    *)
(* "hierarcies"; what is under "hierarchies" is never read.  The loop     *)
(* `for hier in self.hierarchies` goes over the keys of a dict, which are *)
(* strings, so hier.name raises AttributeError for the first hierarchy.   *)
Dimension_localize(objects, self, locale) ==
    LET common == [objects EXCEPT ![self] = localize_common(@, locale.common)]
        attributes == localize_each(common, common[self].attributes,
                                    locale.attributes)
        levels == localize_levels(attributes, attributes[self].levels, 1,
                                  locale.levels)
    IN  IF locale.hierarcies # <<>> /\ levels[self].hierarchies # <<>>
        THEN [error |-> "AttributeError", objects |-> levels]
        ELSE [error |-> "none", objects |-> levels]

\* the objects among ids with the name
Named(objects, ids, name) ==
    {id \in Range(ids) : objects[id].name = name}

\* for name, cube_trans in translation["cubes"].items(), from cubes[i] on
RECURSIVE localize_cubes(_, _, _, _)
localize_cubes(objects, model, cubes, i) ==
    IF i > Len(cubes)
    THEN [error |-> "none", objects |-> objects]
    ELSE LET found == Named(objects, objects[model].cubes, cubes[i].key)
         IN  IF found = {}
             THEN [error |-> "ModelError", objects |-> objects]
             ELSE localize_cubes(
                      Cube_localize(objects, CHOOSE id \in found : TRUE,
                                    cubes[i].value),
                      model, cubes, i + 1)

\* for name, dim_trans in dimensions.items(), from dimensions[i] on
RECURSIVE localize_dimensions(_, _, _, _)
localize_dimensions(objects, model, dimensions, i) ==
    IF i > Len(dimensions)
    THEN [error |-> "none", objects |-> objects]
    ELSE LET found == Named(objects, objects[model].dimensions,
                            dimensions[i].key)
         IN  IF found = {}
             THEN [error |-> "NoSuchDimensionError", objects |-> objects]
             ELSE LET r == Dimension_localize(objects,
                                              CHOOSE id \in found : TRUE,
                                              dimensions[i].value)
                  IN  IF r.error # "none"
                      THEN r
                      ELSE localize_dimensions(r.objects, model, dimensions,
                                               i + 1)

(* Model.localize(translation) of the model `self`: the objects after the *)
(* call and the returned model (0 when the call raises)                   *)
Model_localize(objects, self, translation) ==
    LET copied == deepcopy(objects)
        model == deepcopy_ref(objects, self)
        failed(error, after) ==
            [error |-> error, objects |-> after, model |-> 0]
        common == [copied EXCEPT
                      ![model] = localize_common(
                                     [@ EXCEPT !.locale = translation.locale],
                                     translation.common)]
        cubes == localize_cubes(common, model, translation.cubes, 1)
        dimensions == localize_dimensions(cubes.objects, model,
                                          translation.dimensions, 1)
    IN  IF translation.kind = "string"
        THEN failed("ModelError", copied)
        ELSE IF ~translation.has_locale
        THEN failed("ValueError", copied)
        ELSE IF cubes.error # "none"
        THEN failed(cubes.error, cubes.objects)
        ELSE IF dimensions.error # "none"
        THEN failed(dimensions.error, dimensions.objects)
        ELSE [error |-> "none", objects |-> dimensions.objects, model |-> model]

----------------------------------------------------------------------------
(* The states before any call *)

\* Model(): no dimensions, no cubes
ModelInit ==
    /\ model_dimensions = <<>>
    /\ model_cubes = <<>>
    /\ call = [op |-> "init", dimension |-> NoDimension, cube |-> NoCube,
               pre_dimensions |-> <<>>, pre_cubes |-> <<>>, error |-> "none"]


ArefIdle ==
    aref = [measure |-> <<>>, aggregate |-> <<>>, name |-> <<>>,
            joined |-> FALSE, split |-> NotSplit]


CubeIdle == new_cube = [args |-> NoArgs, object |-> NoCubeObject("not called")]

NoRefCall == [level |-> 0, attribute |-> 0, simplify |-> TRUE, called |-> FALSE,
              result |-> <<>>]

NoValidation == [of |-> "nothing", error |-> "not called", results |-> <<>>,
                 strict |-> FALSE, valid |-> FALSE,
                 dimension |-> NoDimensionObject("not called")]

LocalizeIdle ==
    /\ heap = <<>>
    /\ localized = [error |-> "not called"]

\* the depth None
NoDepth == [some |-> FALSE, value |-> 0]

NoQuery == [op |-> "none", name |-> <<>>, error |-> "not called",
            result |-> <<>>, depth |-> NoDepth, drilldown |-> FALSE,
            path |-> None, level |-> <<>>]

QueryIdle == query = NoQuery

DimensionIdle ==
    /\ new_dimension = NoDimensionObject("not called")
    /\ ref_call = NoRefCall
    /\ hierarchy_calls = <<>>
    /\ validation = NoValidation

----------------------------------------------------------------------------
(* Model: construction and the calls on it *)

Init ==
    /\ ModelInit
    /\ ArefIdle
    /\ CubeIdle
    /\ DimensionIdle
    /\ LocalizeIdle
    /\ QueryIdle

AddDimension(dimension) ==
    LET r == add_dimension(model_dimensions, dimension)
    IN  /\ model_dimensions' = r.dimensions
        /\ UNCHANGED <<model_cubes, aref_vars, cube_vars, dimension_vars, localize_vars, query_vars>>
        /\ call' = [op |-> "add_dimension", dimension |-> dimension,
                    cube |-> NoCube,
                    pre_dimensions |-> model_dimensions,
                    pre_cubes |-> model_cubes, error |-> r.error]

AddCube(cube) ==
    LET r == add_cube(model_dimensions, model_cubes, cube)
    IN  /\ model_dimensions' = r.dimensions
        /\ model_cubes' = r.cubes
        /\ UNCHANGED <<aref_vars, cube_vars, dimension_vars, localize_vars, query_vars>>
        /\ call' = [op |-> "add_cube", dimension |-> NoDimension,
                    cube |-> cube,
                    pre_dimensions |-> model_dimensions,
                    pre_cubes |-> model_cubes, error |-> r.error]

Next ==
    \/ \E dimension \in DimensionObjects : AddDimension(dimension)
    \/ \E cube \in CubeObjects : AddCube(cube)

Spec == Init /\ [][Next]_vars

----------------------------------------------------------------------------
(* Claims on Model.add_dimension and Model.add_cube (specification Spec) *)

\* the entries of an OrderedDict of dimensions that hold object d
EntriesOf(dimensions, d) ==
    {j \in 1..Len(dimensions) : dimensions[j].value = d}

\* some dimension of the cube has the name of a registered dimension that
\* is a different object
Collides(dimensions, cube) ==
    \E i \in 1..Len(cube.dimensions) : \E j \in 1..Len(dimensions) :
        /\ dimensions[j].value.name = cube.dimensions[i].name
        /\ dimensions[j].value # cube.dimensions[i]

RegisteredCube(cubes, cube) ==
    \E j \in 1..Len(cubes) : cubes[j].value = cube

\* a cube registered in cubes, other than cube, holds one of cube's
\* dimension objects
SharesDimension(cubes, cube) ==
    \E j \in 1..Len(cubes) :
        /\ cubes[j].value # cube
        /\ Range(cubes[j].value.dimensions) \cap Range(cube.dimensions) # {}

\* C1: add_cube(cube) fails with ModelError whenever some dimension of the
\* cube has the name of a dimension registered in the model that is a
\* different object, and the cube is then not registered in the model's cubes.
C1_AddCubeRejectsCollision ==
    (call.op = "add_cube" /\ Collides(call.pre_dimensions, call.cube))
        => /\ call.error = "ModelError"
           /\ ~RegisteredCube(model_cubes, call.cube)

C1_Witness ==
    /\ call.op = "add_cube"
    /\ Collides(call.pre_dimensions, call.cube)
    /\ call.error = "ModelError"
    /\ Len(model_cubes) > 0

\* C2: add_cube of a cube that holds the very same Dimension object as a cube
\* already registered (and none that collides by name) succeeds, and the
\* model's dimensions then hold each dimension of the cube exactly once: one
\* entry, under its name, the same object.
C2_SharedDimensionAddedOnce ==
    (/\ call.op = "add_cube"
     /\ SharesDimension(call.pre_cubes, call.cube)
     /\ ~Collides(call.pre_dimensions, call.cube))
        => /\ call.error = "none"
           /\ RegisteredCube(model_cubes, call.cube)
           /\ \A d \in Range(call.cube.dimensions) :
                /\ Cardinality(EntriesOf(model_dimensions, d)) = 1
                /\ Cardinality({j \in 1..Len(model_dimensions) :
                                   model_dimensions[j].key = d.name}) = 1
                /\ OD_get(model_dimensions, d.name) = d

C2_Witness ==
    /\ call.op = "add_cube"
    /\ SharesDimension(call.pre_cubes, call.cube)
    /\ call.error = "none"
    /\ Len(model_cubes) = 2
    /\ \A j \in 1..Len(model_cubes) : Len(model_cubes[j].value.dimensions) > 0

\* C3: after any sequence of add_dimension and add_cube calls, failed ones
\* included, every dimension d of every registered cube is the object the
\* model holds under d.name, and no two registered dimensions share a name.
C3_CubeDimensionsAreModelDimensions ==
    /\ \A j \in 1..Len(model_cubes) :
         \A d \in Range(model_cubes[j].value.dimensions) :
            /\ OD_has(model_dimensions, d.name)
            /\ OD_get(model_dimensions, d.name) = d
    /\ \A i, j \in 1..Len(model_dimensions) :
         i # j => model_dimensions[i].value.name # model_dimensions[j].value.name

C3_Witness ==
    /\ Len(model_cubes) = 2
    /\ Len(model_dimensions) = 2
    /\ call.error # "none"
    /\ \E j \in 1..Len(model_cubes) :
         Len(model_cubes[j].value.dimensions) = 2

\* C4: add_dimension(d) with a name registered under a different object
\* fails with ModelInconsistencyError and leaves the model's dimensions as
\* they were: the first-registered dimension stays under that name.
C4_AddDimensionRejectsSameName ==
    (/\ call.op = "add_dimension"
     /\ \E j \in 1..Len(call.pre_dimensions) :
          /\ call.pre_dimensions[j].key = call.dimension.name
          /\ call.pre_dimensions[j].value # call.dimension)
        => /\ call.error = "ModelInconsistencyError"
           /\ model_dimensions = call.pre_dimensions
           /\ OD_get(model_dimensions, call.dimension.name) # call.dimension

C4_Witness ==
    /\ call.op = "add_dimension"
    /\ call.error = "ModelInconsistencyError"
    /\ OD_has(call.pre_dimensions, call.dimension.name)
    /\ OD_get(call.pre_dimensions, call.dimension.name) # call.dimension
    /\ OD_get(model_dimensions, call.dimension.name) # call.dimension

----------------------------------------------------------------------------
(* aggregate_ref and split_aggregate_ref: the calls *)

\* the arguments are any two strings
ArefInit ==
    /\ ModelInit
    /\ CubeIdle
    /\ DimensionIdle
    /\ LocalizeIdle
    /\ QueryIdle
    /\ aref \in [measure : Strings, aggregate : Strings, name : {<<>>},
                 joined : {FALSE}, split : {NotSplit}]

\* name = aggregate_ref(measure, aggregate)
AggregateRef ==
    /\ ~aref.joined
    /\ aref.split = NotSplit
    /\ aref' = [aref EXCEPT !.name = aggregate_ref(aref.measure, aref.aggregate),
                            !.joined = TRUE]
    /\ UNCHANGED <<model_vars, cube_vars, dimension_vars, localize_vars, query_vars>>

\* split_aggregate_ref(name) of a reference made by aggregate_ref
SplitAggregateRef ==
    /\ aref.joined
    /\ aref.split = NotSplit
    /\ aref' = [aref EXCEPT !.split = split_aggregate_ref(aref.name)]
    /\ UNCHANGED <<model_vars, cube_vars, dimension_vars, localize_vars, query_vars>>

\* split_aggregate_ref(name) of any string
SplitName ==
    /\ ~aref.joined
    /\ aref.split = NotSplit
    /\ aref' = [aref EXCEPT !.name = aref.measure,
                            !.split = split_aggregate_ref(aref.measure)]
    /\ UNCHANGED <<model_vars, cube_vars, dimension_vars, localize_vars, query_vars>>

ArefNext == AggregateRef \/ SplitAggregateRef \/ SplitName

SpecAggregateRef == ArefInit /\ [][ArefNext]_vars

----------------------------------------------------------------------------
(* Claims on aggregate_ref and split_aggregate_ref (SpecAggregateRef) *)

HasUnderscore(s) == \E i \in 1..Len(s) : s[i] = "_"

\* C7: split_aggregate_ref(aggregate_ref(m, f)) = (m, f) for every measure
\* name m, with or without underscores, and every non-empty function name f
\* without underscore; the split is made at the last '_' of the joined string.
C7_SplitInvertsAggregateRef ==
    (/\ aref.joined
     /\ aref.split # NotSplit
     /\ aref.aggregate # <<>>
     /\ ~HasUnderscore(aref.aggregate))
        => /\ aref.split.error = "none"
           /\ aref.split.measure = aref.measure
           /\ aref.split.aggregate = aref.aggregate
           /\ aref.name[Len(aref.split.measure) + 1] = "_"
           /\ \A i \in (Len(aref.split.measure) + 2)..Len(aref.name) :
                aref.name[i] # "_"

C7_Witness ==
    /\ aref.joined
    /\ aref.split.error = "none"
    /\ HasUnderscore(aref.measure)
    /\ aref.aggregate # <<>>
    /\ ~HasUnderscore(aref.aggregate)
    /\ aref.split.measure = aref.measure

\* C8: split_aggregate_ref(name) fails with ArgumentError exactly when name
\* holds no '_' or ends with its last '_'; otherwise it returns the prefix
\* before the last '_' and the non-empty suffix after it.
C8_SplitFailsExactlyOnNoSuffix ==
    aref.split # NotSplit
        => /\ aref.split.error \in {"none", "ArgumentError"}
           /\ aref.split.error = "ArgumentError"
                <=> (\/ ~HasUnderscore(aref.name)
                     \/ aref.name[Len(aref.name)] = "_")
           /\ aref.split.error = "none"
                => /\ aref.split.aggregate # <<>>
                   /\ ~HasUnderscore(aref.split.aggregate)
                   /\ aref.name = aref.split.measure \o Underscore
                                     \o aref.split.aggregate

C8_Witness ==
    /\ ~aref.joined
    /\ aref.split.error = "ArgumentError"
    /\ HasUnderscore(aref.name)
    /\ aref.name[Len(aref.name)] = "_"
    /\ Len(aref.name) > 1

----------------------------------------------------------------------------
(* Cube: construction *)

CubeInit ==
    /\ ModelInit
    /\ ArefIdle
    /\ CubeIdle
    /\ DimensionIdle
    /\ LocalizeIdle
    /\ QueryIdle

\* Cube(name, measures=measures): the aggregates are derived
NewCubeDefault ==
    /\ new_cube.object.error = "not called"
    /\ \E measures \in ListsOf(MeasureMetadata, MaxMeasures) :
          new_cube' = [args |-> [NoArgs EXCEPT !.measures = measures],
                       object |-> Cube_init(<<>>, measures, None, <<>>)]
    /\ UNCHANGED <<model_vars, aref_vars, dimension_vars, localize_vars, query_vars>>

\* Cube(name, measures=measures, aggregates=aggregates)
NewCubeExplicit ==
    /\ new_cube.object.error = "not called"
    /\ \E measures \in ListsOf(PlainMeasures, MaxMeasures) :
       \E aggregates \in ListsOf(AggregateMetadata, MaxAggregates) :
          new_cube' = [args |-> [NoArgs EXCEPT !.measures = measures,
                                              !.aggregates = Some(aggregates)],
                       object |-> Cube_init(<<>>, measures, Some(aggregates),
                                            <<>>)]
    /\ UNCHANGED <<model_vars, aref_vars, dimension_vars, localize_vars, query_vars>>

\* Cube(name, measures=measures, details=details)
NewCubeWithDetails ==
    /\ new_cube.object.error = "not called"
    /\ \E measures \in ListsOf(PlainMeasures, MaxMeasures) :
       \E details \in ListsOf(DetailNames, MaxCubeDetails) \ {<<>>} :
          new_cube' = [args |-> [NoArgs EXCEPT !.measures = measures,
                                              !.details = details],
                       object |-> Cube_init(<<>>, measures, None, details)]
    /\ UNCHANGED <<model_vars, aref_vars, dimension_vars, localize_vars, query_vars>>

\* cube.validate()
ValidateCube ==
    /\ new_cube.object.error = "none"
    /\ validation.error = "not called"
    /\ validation' = [NoValidation EXCEPT !.of = "cube",
                                          !.error = "none",
                                          !.results = Cube_validate(new_cube.object)]
    /\ UNCHANGED <<model_vars, aref_vars, cube_vars, new_dimension, ref_call,
                   hierarchy_calls, localize_vars, query_vars>>

\* the names looked up: a measure, an aggregate <measure>_<function>, the
\* default aggregate of a measure, an explicit aggregate
QueryNames ==
    {<<"a">>, <<"a", "_", "c">>, <<"a">> \o Underscore \o Sum, <<"n">>}

\* cube.measure_aggregate(name)
CallMeasureAggregate ==
    /\ new_cube.object.error = "none"
    /\ query.error = "not called"
    /\ \E name \in QueryNames :
       \E r \in {measure_aggregate(new_cube.object, name)} :
          query' = [NoQuery EXCEPT !.op = "measure_aggregate",
                                   !.name = name,
                                   !.error = r.error, !.result = r.result]
    /\ UNCHANGED <<model_vars, aref_vars, cube_vars, dimension_vars,
                   localize_vars>>

\* cube.aggregates_for_measure(name)
CallAggregatesForMeasure ==
    /\ new_cube.object.error = "none"
    /\ query.error = "not called"
    /\ \E name \in QueryNames :
          query' = [NoQuery EXCEPT
                       !.op = "aggregates_for_measure",
                       !.name = name,
                       !.error = "none",
                       !.result = aggregates_for_measure(
                                      OD_values(new_cube.object.aggregates),
                                      name)]
    /\ UNCHANGED <<model_vars, aref_vars, cube_vars, dimension_vars,
                   localize_vars>>

CubeNext ==
    \/ NewCubeDefault
    \/ NewCubeExplicit
    \/ NewCubeWithDetails
    \/ ValidateCube
    \/ CallMeasureAggregate
    \/ CallAggregatesForMeasure

SpecCube == CubeInit /\ [][CubeNext]_vars

----------------------------------------------------------------------------
(* Claims on Cube.__init__ (SpecCube) *)

\* the names of the measures given to the constructor
GivenMeasureNames ==
    {new_cube.args.measures[i].name : i \in 1..Len(new_cube.args.measures)}

\* C5: Cube(...) with an explicit aggregate list fails with
\* NoSuchAttributeError, returning no cube, when some aggregate names a source
\* measure that is not among the cube's measures; aggregates without a source
\* measure are accepted.
C5_ExplicitAggregateNeedsMeasure ==
    (new_cube.object.error # "not called" /\ new_cube.args.aggregates.some)
        => LET given == new_cube.args.aggregates.value
               unknown == {i \in 1..Len(given) :
                              /\ Truthy(given[i].measure)
                              /\ given[i].measure.value \notin GivenMeasureNames}
           IN  /\ unknown # {} => new_cube.object = NoCubeObject("NoSuchAttributeError")
               /\ unknown = {} =>
                    /\ new_cube.object.error = "none"
                    /\ \A i \in 1..Len(given) :
                         OD_has(new_cube.object.aggregates, given[i].name)

C5_Witness ==
    /\ new_cube.args.aggregates.some
    /\ new_cube.object.error = "none"
    /\ \E i, j \in 1..Len(new_cube.args.aggregates.value) :
         /\ ~new_cube.args.aggregates.value[i].measure.some
         /\ Truthy(new_cube.args.aggregates.value[j].measure)
    /\ Len(new_cube.object.aggregates) = 2

\* a list without the repetitions of equal elements, first occurrences kept
RECURSIVE WithoutRepetitions(_)
WithoutRepetitions(s) ==
    IF s = <<>>
    THEN <<>>
    ELSE LET init == WithoutRepetitions(SubSeq(s, 1, Len(s) - 1))
         IN  IF s[Len(s)] \in Range(init) THEN init ELSE Append(init, s[Len(s)])

\* the default aggregates of the cube's measures, in measure order
DefaultAggregatesOfMeasures ==
    all_default_aggregates(OD_values(new_cube.object.measures), 1)

\* C6: a Cube constructed without an aggregate list holds exactly the default
\* aggregates of its measures, in measure order: per measure one aggregate
\* per function of the measure (`sum` when it has none), named
\* <measure>_<function>, with that source measure and that function.
C6_DefaultAggregatesPerMeasure ==
    (new_cube.object.error = "none" /\ ~new_cube.args.aggregates.some)
        => /\ OD_values(new_cube.object.aggregates)
                = WithoutRepetitions(DefaultAggregatesOfMeasures)
           /\ \A i \in 1..Len(new_cube.object.aggregates) :
                new_cube.object.aggregates[i].key = new_cube.object.aggregates[i].value.name

\* the names of the measures of the cube
CubeMeasureNames == Range(OD_keys(new_cube.object.measures))

\* C16: Cube.validate() returns an 'error' diagnostic whenever a detail
\* attribute of the cube has the same name as one of the cube's measures.
C16_DetailMeasureCollisionIsReported ==
    (/\ validation.of = "cube"
     /\ \E i \in 1..Len(new_cube.object.details) :
           new_cube.object.details[i].name \in CubeMeasureNames)
        => \E k \in 1..Len(validation.results) :
              validation.results[k].severity = "error"

C16_Witness ==
    /\ validation.of = "cube"
    /\ Len(new_cube.object.details) = 2
    /\ new_cube.object.details[1].name # new_cube.object.details[2].name
    /\ new_cube.object.details[2].name \in CubeMeasureNames
    /\ new_cube.object.details[1].name \notin CubeMeasureNames
    /\ \E k \in 1..Len(validation.results) :
          validation.results[k].severity = "error"

\* C17: a cube whose measures are the Measure objects made by the
\* constructor and whose details have pairwise distinct names that are no
\* measure names validates with an empty list of diagnostics.
C17_ProperCubeValidatesClean ==
    (/\ validation.of = "cube"
     /\ \A i, j \in 1..Len(new_cube.object.details) :
           i # j => new_cube.object.details[i].name
                       # new_cube.object.details[j].name
     /\ \A i \in 1..Len(new_cube.object.details) :
           new_cube.object.details[i].name \notin CubeMeasureNames)
        => validation.results = <<>>

----------------------------------------------------------------------------
(* Dimension: construction, Attribute.ref, and a cube over the dimension *)

RefInit ==
    /\ ModelInit
    /\ ArefIdle
    /\ CubeIdle
    /\ DimensionIdle
    /\ LocalizeIdle
    /\ QueryIdle

\* Dimension(name, levels)
NewDimension ==
    /\ new_dimension.error = "not called"
    /\ \E name \in RefDimensionNames :
       \E levels \in ListsOf(LevelObjects, MaxLevels) :
          new_dimension' = Dimension_init(1, name, levels, <<>>, "")
    /\ UNCHANGED <<model_vars, aref_vars, cube_vars, ref_call, hierarchy_calls, validation, localize_vars, query_vars>>

\* the attribute object at a pointer into the dimension's levels
AttributeAt(dimension, li, ai) == dimension.levels[li].value.attributes[ai]

\* attribute.ref(simplify) of an attribute of a level of the dimension
CallRef(li, ai, simplify) ==
    /\ new_dimension.error = "none"
    /\ ~ref_call.called
    /\ new_cube.object.error = "not called"
    /\ li \in 1..Len(new_dimension.levels)
    /\ ai \in 1..Len(new_dimension.levels[li].value.attributes)
    /\ ref_call' = [level |-> li, attribute |-> ai, simplify |-> simplify,
                    called |-> TRUE,
                    result |-> Attribute_ref(AttributeAt(new_dimension, li, ai),
                                             simplify, <<new_dimension>>)]
    /\ UNCHANGED <<model_vars, aref_vars, cube_vars, new_dimension, hierarchy_calls, validation, localize_vars, query_vars>>

\* Cube(name, dimensions=[dimension], measures=measures, details=details)
NewCubeOnDimension(measures, details) ==
    /\ new_dimension.error = "none"
    /\ ~ref_call.called
    /\ new_cube.object.error = "not called"
    /\ new_cube' = [args |-> [NoArgs EXCEPT !.dimensions = <<new_dimension.id>>,
                                           !.measures = measures,
                                           !.details = details],
                    object |-> Cube_init(<<new_dimension>>, measures, None,
                                         details)]
    /\ UNCHANGED <<model_vars, aref_vars, dimension_vars, localize_vars, query_vars>>

\* dimension.validate()
ValidateDimension ==
    /\ new_dimension.error = "none"
    /\ validation.error = "not called"
    /\ \E r \in {Dimension_validate(new_dimension, <<new_dimension>>)} :
          /\ new_dimension' = r.dimension
          /\ validation' = [NoValidation EXCEPT !.of = "dimension",
                                                !.dimension = new_dimension,
                                                !.error = r.error,
                                                !.results = r.results]
    /\ UNCHANGED <<model_vars, aref_vars, cube_vars, ref_call, hierarchy_calls, localize_vars, query_vars>>

RefNext ==
    \/ NewDimension
    \/ ValidateDimension
    \/ \E li \in 1..MaxLevels : \E ai \in 1..MaxAttributes :
       \E simplify \in BOOLEAN :
          CallRef(li, ai, simplify)
    \/ \E measures \in ListsOf([name : AttributeNames, aggregates : {None}],
                               MaxCubeMeasures) :
       \E details \in ListsOf(AttributeNames, MaxDetails) :
          NewCubeOnDimension(measures, details)

SpecRef == RefInit /\ [][RefNext]_vars

----------------------------------------------------------------------------
(* Claims on Attribute.ref (SpecRef) *)

\* C9: for an attribute a whose owning dimension is D, a.ref() is D.name when
\* D has exactly one level and no level of D has more than one attribute,
\* and D.name + '.' + a.name in every other case.
C9_RefOfDimensionAttribute ==
    (/\ ref_call.called
     /\ ref_call.simplify
     /\ AttributeAt(new_dimension, ref_call.level, ref_call.attribute).dimension
            = new_dimension.id)
        => LET a == AttributeAt(new_dimension, ref_call.level, ref_call.attribute)
               one_level == Len(new_dimension.levels) = 1
               no_details == \A i \in 1..Len(new_dimension.levels) :
                                Len(new_dimension.levels[i].value.attributes) <= 1
           IN  ref_call.result = IF one_level /\ no_details
                                 THEN new_dimension.name
                                 ELSE new_dimension.name \o Dot \o a.name

C9_Witness ==
    /\ ref_call.called
    /\ ref_call.simplify
    /\ Len(new_dimension.levels) = 1
    /\ Len(new_dimension.levels[1].value.attributes) = 2
    /\ AttributeAt(new_dimension, ref_call.level, ref_call.attribute).dimension
          = new_dimension.id
    /\ ref_call.result = new_dimension.name \o Dot
          \o AttributeAt(new_dimension, ref_call.level, ref_call.attribute).name

\* ref() of every attribute of the cube's dimension, measures and details
CubeAttributeRefs ==
    LET attributes == all_attributes(new_dimension)
        measures == OD_values(new_cube.object.measures)
        details == new_cube.object.details
    IN  [i \in 1..Len(attributes) |->
            Attribute_ref(attributes[i], TRUE, <<new_dimension>>)]
        \o [i \in 1..Len(measures) |-> AttributeBase_ref(measures[i])]
        \o [i \in 1..Len(details) |->
               Attribute_ref(details[i], TRUE, <<new_dimension>>)]

\* cube.validate() reports no duplicate detail
NoDuplicateDetail(cube) ==
    LET results == Cube_validate(cube)
    IN  \A i \in 1..Len(results) :
           results[i].message \notin {"Duplicate detail",
                                      "Duplicate detail - specified also as measure"}

\* C10: within one cube any two distinct attributes among the attributes of
\* the cube's dimensions, its measures and its details have different ref()
\* strings.
C10_RefsUniqueInCube ==
    (/\ new_cube.object.error = "none"
     /\ Len(new_cube.object.dimensions) > 0
     /\ NoDuplicateDetail(new_cube.object))
        => \A i, j \in 1..Len(CubeAttributeRefs) :
              i # j => CubeAttributeRefs[i] # CubeAttributeRefs[j]

\* levels li < lj of the dimension both have an attribute called name
SharedAttributeName(dimension, li, lj, name) ==
    /\ li < lj
    /\ \E ai \in 1..Len(dimension.levels[li].value.attributes) :
          dimension.levels[li].value.attributes[ai].name = name
    /\ \E aj \in 1..Len(dimension.levels[lj].value.attributes) :
          dimension.levels[lj].value.attributes[aj].name = name

\* C15: when two different levels of a dimension each have an attribute of
\* the same name, Dimension.validate() returns an 'error' diagnostic that
\* reports the duplicate attribute and names the level where it recurs and
\* the level of its first occurrence.
C15_DuplicateAttributeIsReported ==
    (validation.of = "dimension" /\ validation.error = "none")
        => \A li, lj \in 1..Len(new_dimension.levels) :
           \A name \in AttributeNames :
              SharedAttributeName(new_dimension, li, lj, name)
                 => \E k \in 1..Len(validation.results) :
                       /\ validation.results[k].severity = "error"
                       /\ validation.results[k].message = "Duplicate attribute"
                       /\ validation.results[k].attribute = name
                       /\ validation.results[k].level = new_dimension.levels[lj].key
                       /\ validation.results[k].other = new_dimension.levels[li].key

----------------------------------------------------------------------------
(* Dimension.hierarchy(): the default hierarchy (SpecHierarchy) *)

MaxHierarchies == 2
MaxCalls == 2

HierarchyNames == {"default", "h", "g"}

\* the level references of a hierarchy: none, one level, two levels
HierarchyLevelRefs == {<<>>, <<<<"l">>>>, <<<<"l">>, <<"m">>>>}

\* the arguments of Hierarchy(name, levels)
HierarchyMetadata == [name : HierarchyNames, levels : HierarchyLevelRefs]

\* levels of one attribute
PlainLevels == {Level(name, <<<<"a">>>>) : name \in LevelNames}

HierarchyInit ==
    /\ ModelInit
    /\ ArefIdle
    /\ CubeIdle
    /\ DimensionIdle
    /\ LocalizeIdle
    /\ QueryIdle

\* Dimension(name, levels, hierarchies, default_hierarchy_name)
NewDimensionWithHierarchies ==
    /\ new_dimension.error = "not called"
    /\ \E levels \in ListsOf(PlainLevels, MaxLevels) :
       \E metadata \in ListsOf(HierarchyMetadata, MaxHierarchies) :
       \E default_hierarchy_name \in {""} \cup HierarchyNames :
          new_dimension' =
              Dimension_init(1, <<"d">>, levels,
                             [i \in 1..Len(metadata) |->
                                 Hierarchy(i, metadata[i].name,
                                           metadata[i].levels)],
                             default_hierarchy_name)
    /\ UNCHANGED <<model_vars, aref_vars, cube_vars, ref_call, hierarchy_calls, validation, localize_vars, query_vars>>

\* dimension.hierarchies = {} : the caller empties the public mapping
ClearHierarchies ==
    /\ new_dimension.error = "none"
    /\ hierarchy_calls = <<>>
    /\ new_dimension.hierarchies # <<>>
    /\ new_dimension' = [new_dimension EXCEPT !.hierarchies = <<>>]
    /\ UNCHANGED <<model_vars, aref_vars, cube_vars, ref_call, hierarchy_calls, validation, localize_vars, query_vars>>

\* dimension.hierarchy() first, dimension.hierarchy(None) afterwards; each
\* outcome is kept with the dimension before the call
CallHierarchy ==
    /\ new_dimension.error = "none"
    /\ Len(hierarchy_calls) < MaxCalls
    /\ \E r \in {Dimension_hierarchy(new_dimension)} :
          /\ new_dimension' = r.dimension
          /\ hierarchy_calls' =
                Append(hierarchy_calls,
                       [obj |-> IF hierarchy_calls = <<>> THEN "omitted"
                                ELSE "None",
                        error |-> r.error, hierarchy |-> r.hierarchy,
                        before |-> new_dimension])
    /\ UNCHANGED <<model_vars, aref_vars, cube_vars, ref_call, validation, localize_vars, query_vars>>

(* Model(dimensions=[dimension]).is_valid(strict), or the same with a    *)
(* cube Cube(name, dimensions=[dimension]) without measures in the model  *)
ModelIsValid ==
    /\ new_dimension.error = "none"
    /\ validation.error = "not called"
    /\ hierarchy_calls = <<>>
    /\ \E strict \in BOOLEAN : \E with_cube \in BOOLEAN :
       \E r \in {Model_validate(<<new_dimension>>,
                                 IF with_cube
                                 THEN <<Cube_init(<<new_dimension>>, <<>>, None,
                                                  <<>>)>>
                                 ELSE <<>>,
                                 <<new_dimension>>)} :
          /\ new_dimension' = r.dimensions[1]
          /\ validation' = [of |-> "model", error |-> r.error,
                            dimension |-> new_dimension,
                            results |-> r.results, strict |-> strict,
                            valid |-> IF r.error = "none"
                                      THEN is_valid(r.results, strict)
                                      ELSE FALSE]
    /\ UNCHANGED <<model_vars, aref_vars, cube_vars, ref_call, hierarchy_calls, localize_vars, query_vars>>

HierarchyNext ==
    \/ NewDimensionWithHierarchies
    \/ ValidateDimension
    \/ ModelIsValid
    \/ ClearHierarchies
    \/ CallHierarchy

SpecHierarchy == HierarchyInit /\ [][HierarchyNext]_vars

----------------------------------------------------------------------------
(* Claims on the default hierarchy (SpecHierarchy) *)

\* the dimension after the i-th hierarchy() call
AfterCall(i) ==
    IF i < Len(hierarchy_calls)
    THEN hierarchy_calls[i + 1].before
    ELSE new_dimension

\* default_hierarchy_name is set and names a hierarchy of the dimension
NamedDefaultExists(dimension) ==
    /\ dimension.default_hierarchy_name # ""
    /\ OD_has(dimension.hierarchies, dimension.default_hierarchy_name)

\* C11: when default_hierarchy_name is set and a hierarchy of that name is
\* in the dimension, hierarchy() returns exactly that hierarchy, whatever
\* other hierarchies exist.
C11_NamedDefaultIsReturned ==
    \A i \in 1..Len(hierarchy_calls) :
        LET c == hierarchy_calls[i]
        IN  NamedDefaultExists(c.before)
                => /\ c.error = "none"
                   /\ c.hierarchy =
                         OD_get(c.before.hierarchies,
                                c.before.default_hierarchy_name).id

\* C12: hierarchy() raises ModelError when the dimension has no hierarchy
\* and more than one level, and when it has more than one hierarchy of
\* which none is named by default_hierarchy_name or named "default"; no
\* hierarchy is returned.
C12_AmbiguousDefaultFails ==
    \A i \in 1..Len(hierarchy_calls) :
        LET c == hierarchy_calls[i]
            d == c.before
        IN  (\/ Len(d.hierarchies) = 0 /\ Len(d.levels) > 1
             \/ /\ Len(d.hierarchies) > 1
                /\ ~NamedDefaultExists(d)
                /\ ~OD_has(d.hierarchies, "default"))
                => c.error = "ModelError" /\ c.hierarchy = 0

C12_Witness ==
    /\ hierarchy_calls # <<>>
    /\ Len(hierarchy_calls[1].before.hierarchies) > 1
    /\ hierarchy_calls[1].before.default_hierarchy_name = ""
    /\ ~OD_has(hierarchy_calls[1].before.hierarchies, "default")
    /\ hierarchy_calls[1].error = "ModelError"

\* C13: with no hierarchy and exactly one level hierarchy() returns a
\* hierarchy over that level, cached in the dimension, and every later call
\* returns the same object.
C13_FlatHierarchyIsSynthesized ==
    \A i \in 1..Len(hierarchy_calls) :
        LET c == hierarchy_calls[i]
        IN  (Len(c.before.hierarchies) = 0 /\ Len(c.before.levels) = 1)
                => /\ c.error = "none"
                   /\ c.hierarchy # 0
                   /\ AfterCall(i)._flat_hierarchy = c.hierarchy
                   /\ c.hierarchy = hierarchy_calls[1].hierarchy

\* what a hierarchy() call must leave alone: the hierarchies mapping (the
\* names and the objects under them), the levels, the attributes and
\* default_hierarchy_name
HierarchyFrame(dimension) ==
    [hierarchies |-> [k \in 1..Len(dimension.hierarchies) |->
                         [key |-> dimension.hierarchies[k].key,
                          id |-> dimension.hierarchies[k].value.id,
                          name |-> dimension.hierarchies[k].value.name,
                          levels |-> dimension.hierarchies[k].value._level_refs]],
     levels |-> dimension.levels,
     attributes |-> dimension.attributes,
     default_hierarchy_name |-> dimension.default_hierarchy_name]

\* C14: on a fixed dimension hierarchy() and hierarchy(None) give the same
\* result, hierarchy or failure, on every call, and a call leaves the
\* hierarchies mapping, the levels, the attributes and
\* default_hierarchy_name as they were.
C14_DefaultLookupIsIdempotent ==
    \A i \in 1..Len(hierarchy_calls) :
        /\ hierarchy_calls[i].error = hierarchy_calls[1].error
        /\ hierarchy_calls[i].hierarchy = hierarchy_calls[1].hierarchy
        /\ HierarchyFrame(AfterCall(i)) = HierarchyFrame(hierarchy_calls[i].before)

\* C18: Model.is_valid(strict) is determined by the list Model.validate()
\* returns: with strict false it is False exactly when the list holds an
\* 'error'; with strict true it is False exactly when the list is not empty.
C18_IsValidReducesDiagnostics ==
    (validation.of = "model" /\ validation.error = "none")
        => /\ ~validation.strict
                => (~validation.valid
                       <=> \E i \in 1..Len(validation.results) :
                              validation.results[i].severity = "error")
           /\ validation.strict
                => (~validation.valid <=> validation.results # <<>>)

C18_Witness ==
    /\ validation.of = "model"
    /\ validation.error = "none"
    /\ validation.strict
    /\ validation.results # <<>>
    /\ \A i \in 1..Len(validation.results) :
          validation.results[i].severity = "default"
    /\ ~validation.valid

----------------------------------------------------------------------------
(* Model.localize: a model of one cube on one dimension is assembled and  *)
(* localized once                                                         *)

\* the levels of the dimension of the model
ModelLevels ==
    {levels \in
        {<<Level(<<"l">>, <<<<"a">>>>)>>,
         <<Level(<<"l">>, <<<<"a">>, <<"d">>>>)>>,
         <<Level(<<"l">>, <<<<"a">>>>), Level(<<"m">>, <<<<"d">>>>)>>,
         <<Level(<<"l">>, <<<<"a">>>>), Level(<<"m">>, <<<<"a">>>>)>>,
         <<Level(<<"l">>, <<<<"a">>, <<"d">>>>), Level(<<"m">>, <<<<"d">>>>)>>} :
        /\ Len(levels) <= MaxLevels
        /\ \A i \in 1..Len(levels) : Len(levels[i].attributes) <= MaxAttributes}

ModelMeasures ==
    {<<>>, <<[name |-> <<"a">>, aggregates |-> None]>>}

ModelDetails ==
    {<<>>, <<<<"c">>>>}

\* the texts of a translation
Locale == <<"sk">>
TranslatedLabel(name) == <<"preklad">> \o name
TranslatedDescription(name) == <<"opis">> \o name

\* the forms of the entry of an attribute, measure, aggregate or level
EntryKinds == {"string", "label", "both", "description"}

Entry(kind, name) ==
    IF kind = "string"
    THEN StringEntry(TranslatedLabel(name))
    ELSE DictEntry(kind \in {"label", "both"}, TranslatedLabel(name),
                   kind \in {"both", "description"}, TranslatedDescription(name))

\* {name: entry} for the names
Entries(kind, names) ==
    [i \in 1..Len(names) |-> [key |-> names[i], value |-> Entry(kind, names[i])]]

\* the dictionary of a model, cube or dimension: "label" and "description"
ContainerEntry(kind, labelled, name) ==
    DictEntry(labelled, TranslatedLabel(name),
              kind \in {"both", "description"}, TranslatedDescription(name))

\* the names a translation can give for attributes, measures and details,
\* and for levels
TranslatedNames ==
    {<<>>, <<<<"a">>>>, <<<<"a">>, <<"c">>, <<"d">>>>}

TranslatedLevels ==
    {<<>>, <<<<"l">>>>, <<<<"l">>, <<"m">>>>}

\* whether a cube or dimension is translated, with a label or without, or
\* the translation names one the model does not have
Choices == {"absent", "labelled", "unlabelled", "unknown"}

ChosenName(choice, name) == IF choice = "unknown" THEN <<"x">> ELSE name

\* what a dimension's translation has besides attributes and levels:
\* nothing, the deprecated "attributes" in its levels, levels translated
\* by {"attributes": {}} alone, the translations of the hierarchies under
\* "hierarchies", or those under "hierarcies"
Extras == {"none", "level attributes", "no level attributes", "hierarchies",
           "hierarcies"}

NoTranslation ==
    [kind |-> "dict", has_locale |-> FALSE, locale |-> <<>>,
     common |-> DictEntry(FALSE, <<>>, FALSE, <<>>),
     cubes |-> <<>>, dimensions |-> <<>>]

Translation(kind, labelled, cube, dimension, names, levels, extra) ==
    [NoTranslation EXCEPT
        !.has_locale = TRUE,
        !.locale = Locale,
        !.common = ContainerEntry(kind, labelled, <<"model">>),
        !.cubes =
            IF cube = "absent"
            THEN <<>>
            ELSE <<[key |-> ChosenName(cube, <<"c">>),
                    value |->
                      [common |-> ContainerEntry(kind, cube = "labelled", <<"c">>),
                       measures |-> Entries(kind, names),
                       aggregates |->
                           Entries(kind, [i \in 1..Len(names) |->
                                             names[i] \o Underscore \o Sum]),
                       details |-> Entries(kind, names)]]>>,
        !.dimensions =
            IF dimension = "absent"
            THEN <<>>
            ELSE <<[key |-> ChosenName(dimension, <<"d">>),
                    value |->
                      [common |-> ContainerEntry(kind, dimension = "labelled",
                                                 <<"d">>),
                       attributes |-> Entries(kind, names),
                       levels |->
                           [i \in 1..Len(levels) |->
                               [key |-> levels[i],
                                value |->
                                  [common |->
                                       IF extra = "no level attributes"
                                          /\ kind # "string"
                                       THEN DictEntry(FALSE, <<>>, FALSE, <<>>)
                                       ELSE Entry(kind, levels[i]),
                                   has_attributes |->
                                       /\ extra \in {"level attributes",
                                                     "no level attributes"}
                                       /\ kind # "string",
                                   attributes |->
                                       IF extra = "level attributes"
                                          /\ kind # "string"
                                       THEN Entries(kind, <<<<"a">>>>)
                                       ELSE <<>>]]],
                       hierarchies |->
                           IF extra = "hierarchies"
                           THEN Entries(kind, <<<<"default">>>>)
                           ELSE <<>>,
                       hierarcies |->
                           IF extra = "hierarcies"
                           THEN Entries(kind, <<<<"default">>>>)
                           ELSE <<>>]]>>]

(* a dictionary without "locale", the name of a translation the model     *)
(* does not have, or a dictionary with the locale                         *)
Translations ==
    {NoTranslation, [NoTranslation EXCEPT !.kind = "string"]}
    \cup {Translation(kind, labelled, cube, dimension, names, levels, extra) :
             kind \in EntryKinds, labelled \in BOOLEAN, cube \in Choices,
             dimension \in Choices, names \in TranslatedNames,
             levels \in TranslatedLevels, extra \in Extras}

LocalizeInit ==
    /\ ModelInit
    /\ ArefIdle
    /\ CubeIdle
    /\ DimensionIdle
    /\ LocalizeIdle
    /\ QueryIdle

(* d = Dimension("d", levels); c = Cube("c", dimensions=[d], measures,    *)
(* details); Model("model", cubes=[c], dimensions=[d])                    *)
NewModel ==
    /\ heap = <<>>
    /\ \E levels \in ModelLevels, measures \in ModelMeasures,
          details \in ModelDetails :
          \E d \in {Dimension_init(1, <<"d">>, levels, <<>>, "")} :
             \E c \in {Cube_init(<<d>>, measures, None, details)} :
                /\ d.error = "none"
                /\ c.error = "none"
                /\ heap' = ModelObjects(c, d)
    /\ UNCHANGED <<model_vars, aref_vars, cube_vars, dimension_vars, localized, query_vars>>

\* model.localize(translation), the model being object 1
Localize ==
    /\ heap # <<>>
    /\ localized.error = "not called"
    /\ \E translation \in Translations :
          \E r \in {Model_localize(heap, 1, translation)} :
             /\ heap' = r.objects
             /\ localized' = [error |-> r.error, self |-> 1, before |-> heap,
                              translation |-> translation, model |-> r.model]
    /\ UNCHANGED <<model_vars, aref_vars, cube_vars, dimension_vars, query_vars>>

LocalizeNext ==
    \/ NewModel
    \/ Localize

SpecLocalize == LocalizeInit /\ [][LocalizeNext]_vars

\* the objects an object refers to
References(object) ==
    (IF object.dimension = 0 THEN {} ELSE {object.dimension})
    \cup Range(object.cubes) \cup Range(object.dimensions)
    \cup Range(object.measures) \cup Range(object.aggregates)
    \cup Range(object.details) \cup Range(object.levels)
    \cup Range(object.attributes) \cup Range(object.hierarchies)

\* the objects reachable from the objects `seen`
RECURSIVE Reachable(_, _)
Reachable(objects, seen) ==
    LET more == seen \cup UNION {References(objects[id]) : id \in seen}
    IN  IF more = seen THEN seen ELSE Reachable(objects, more)

\* C19: Model.localize never mutates the source model: after the call,
\* successful or failed, every object of the source has the locale, label,
\* description and references it had before, and the returned model is a
\* different object from which no cube, dimension, level or attribute of
\* the source can be reached.
C19_LocalizeLeavesSourceAlone ==
    localized.error # "not called"
        => /\ Len(heap) >= Len(localized.before)
           /\ SubSeq(heap, 1, Len(localized.before)) = localized.before
           /\ localized.error = "none"
                => /\ localized.model # localized.self
                   /\ \A id \in Reachable(heap, {localized.model}) :
                         heap[id].class \in {"Cube", "Dimension", "Level",
                                             "Attribute"}
                            => id \notin Reachable(localized.before,
                                                   {localized.self})

C19_Witness ==
    /\ localized.error = "none"
    /\ \E id \in Reachable(localized.before, {localized.self}) :
          /\ localized.before[id].class = "Attribute"
          /\ localized.before[id].dimension # 0
          /\ \E copy \in Reachable(heap, {localized.model}) :
                /\ heap[copy].class = "Attribute"
                /\ heap[copy].name = localized.before[id].name
                /\ heap[copy].label = TranslatedLabel(heap[copy].name)
                /\ localized.before[id].label = SourceLabel(heap[copy].name)

\* the entry of the translation that names the object `id` of the source
\* model, as a set: empty when the translation does not name it
NamingEntries(objects, self, translation, id) ==
    LET under(entries, name) ==
            {entries[i].value : i \in {j \in 1..Len(entries) :
                                          entries[j].key = name}}
        of_cube(cube) ==
            UNION {IF id = cube THEN {t.common}
                   ELSE IF id \in Range(objects[cube].measures)
                   THEN under(t.measures, objects[id].name)
                   ELSE IF id \in Range(objects[cube].aggregates)
                   THEN under(t.aggregates, objects[id].name)
                   ELSE IF id \in Range(objects[cube].details)
                   THEN under(t.details, objects[id].name)
                   ELSE {} :
                   t \in under(translation.cubes, objects[cube].name)}
        of_dimension(dimension) ==
            UNION {IF id = dimension THEN {t.common}
                   ELSE IF id \in Range(objects[dimension].attributes)
                   THEN under(t.attributes, objects[id].name)
                   ELSE IF id \in Range(objects[dimension].levels)
                   THEN {l.common : l \in under(t.levels, objects[id].name)}
                   ELSE {} :
                   t \in under(translation.dimensions, objects[dimension].name)}
    IN  IF id = self
        THEN {translation.common}
        ELSE UNION {of_cube(cube) : cube \in Range(objects[self].cubes)}
             \cup UNION {of_dimension(dimension) :
                            dimension \in Range(objects[self].dimensions)}

\* the translation gives attributes only under the dimension, none under a
\* level
AttributesUnderDimension(translation) ==
    \A i \in 1..Len(translation.dimensions) :
        \A j \in 1..Len(translation.dimensions[i].value.levels) :
            translation.dimensions[i].value.levels[j].value.attributes = <<>>

\* C20: the model returned by Model.localize(translation) has the locale of
\* the translation; every cube, measure, aggregate, detail, dimension,
\* dimension attribute and level the translation names has the translated
\* label, and the translated description when one is given; every other
\* label and description is the one of the source.  The attributes of a
\* dimension are those of all_attributes().
C20_LocalizedLabelsMatchTranslation ==
    (localized.error = "none" /\ AttributesUnderDimension(localized.translation))
        => /\ heap[localized.model].locale = localized.translation.locale
           /\ \A id \in 1..Len(localized.before) :
                LET source == localized.before[id]
                    copy == heap[deepcopy_ref(localized.before, id)]
                    named == NamingEntries(localized.before, localized.self,
                                           localized.translation, id)
                IN  /\ copy.label =
                          IF \E e \in named : e.has_label
                          THEN (CHOOSE e \in named : e.has_label).label
                          ELSE source.label
                    /\ copy.description =
                          IF \E e \in named : e.has_description
                          THEN (CHOOSE e \in named : e.has_description).description
                          ELSE source.description

C20_Witness ==
    /\ localized.error = "none"
    /\ AttributesUnderDimension(localized.translation)
    /\ heap[localized.model].locale = Locale
    /\ \E m, l, a, k \in 1..Len(localized.before) :
          /\ localized.before[m].class = "Measure"
          /\ localized.before[l].class = "Level"
          /\ localized.before[a].class = "Attribute"
          /\ localized.before[a].dimension # 0
          /\ localized.before[k].class = "Attribute"
          /\ \A id \in {m, l, a} :
                LET copy == heap[deepcopy_ref(localized.before, id)]
                IN  /\ copy.label = TranslatedLabel(copy.name)
                    /\ copy.description = TranslatedDescription(copy.name)
          /\ heap[deepcopy_ref(localized.before, k)].label
                = SourceLabel(localized.before[k].name)
          /\ heap[deepcopy_ref(localized.before, k)].description
                = SourceDescription(localized.before[k].name)

\* the hierarchies of the dimensions of the source model that a
\* "hierarchies" entry of the translation names, with the entry
TranslatedHierarchies(objects, self, translation) ==
    {<<h, t.hierarchies[j].value>> :
        <<h, t, j>> \in
            {<<h, t, j>> \in
                (1..Len(objects))
                \X {translation.dimensions[i].value :
                       i \in 1..Len(translation.dimensions)}
                \X (1..MaxHierarchies) :
                /\ objects[h].class = "Hierarchy"
                /\ j <= Len(t.hierarchies)
                /\ t.hierarchies[j].key = objects[h].name
                /\ \E i \in 1..Len(translation.dimensions) :
                      /\ translation.dimensions[i].value = t
                      /\ \E d \in Range(objects[self].dimensions) :
                            /\ objects[d].name = translation.dimensions[i].key
                            /\ h \in Range(objects[d].hierarchies)}}

\* the translation names only cubes and dimensions the model has
KnownNames(objects, self, translation) ==
    /\ \A i \in 1..Len(translation.cubes) :
          Named(objects, objects[self].cubes, translation.cubes[i].key) # {}
    /\ \A i \in 1..Len(translation.dimensions) :
          Named(objects, objects[self].dimensions,
                translation.dimensions[i].key) # {}

\* C21: when the translation of a dimension has a "hierarchies" entry that
\* names a hierarchy of the dimension, Model.localize does not fail and the
\* hierarchy of that name in the localized model has the translated label.
C21_HierarchyOverridesAreApplied ==
    (/\ localized.error # "not called"
     /\ localized.translation.kind = "dict"
     /\ localized.translation.has_locale
     /\ KnownNames(localized.before, localized.self, localized.translation))
        => \A pair \in TranslatedHierarchies(localized.before, localized.self,
                                             localized.translation) :
              /\ localized.error = "none"
              /\ (pair[2].kind = "string" \/ pair[2].has_label)
                    => heap[deepcopy_ref(localized.before, pair[1])].label
                          = pair[2].label

\* C22: Cube.measure_aggregate(name) returns the aggregate the cube holds
\* under the name, for every name among the cube's aggregates, the default
\* ones included, and raises NoSuchAttributeError only when the cube has no
\* aggregate of the name.
C22_MeasureAggregateByName ==
    query.op = "measure_aggregate"
        => /\ OD_has(new_cube.object.aggregates, query.name)
                => /\ query.error = "none"
                   /\ query.result = <<[class |-> "MeasureAggregate",
                                        name |-> query.name]>>
           /\ query.error = "NoSuchAttributeError"
                => ~OD_has(new_cube.object.aggregates, query.name)

\* the aggregates whose source measure is called name, in order
RECURSIVE aggregates_for_measure_by_measure(_, _)
aggregates_for_measure_by_measure(aggregates, name) ==
    IF aggregates = <<>>
    THEN <<>>
    ELSE (IF Head(aggregates).measure = Some(name)
          THEN <<[class |-> "MeasureAggregate", name |-> Head(aggregates).name]>>
          ELSE <<>>)
         \o aggregates_for_measure_by_measure(Tail(aggregates), name)

\* C23: Cube.aggregates_for_measure(name) returns exactly the aggregates of
\* the cube whose source measure is called name, in the order of the
\* aggregates, and the empty list when no aggregate refers to the measure.
C23_AggregatesForMeasure ==
    query.op = "aggregates_for_measure"
        => /\ query.error = "none"
           /\ query.result = aggregates_for_measure_by_measure(
                                 OD_values(new_cube.object.aggregates),
                                 query.name)

\* the messages of Dimension.validate about the hierarchies and the
\* default hierarchy
HierarchyMessages ==
    {"No hierarchies, more than one levels exist", "No hierarchies",
     "No default hierarchy specified", "Default hierarchy does not exist"}

\* C24: for a dimension with at least one level, validate() holds an
\* 'error' about the hierarchies or the default hierarchy exactly when
\* hierarchy() fails on the same dimension; compared are a validate() and a
\* first hierarchy() call on equal hierarchies, levels, attributes and
\* default_hierarchy_name.
C24_ValidateAgreesWithHierarchy ==
    (/\ validation.of = "dimension"
     /\ hierarchy_calls # <<>>
     /\ Len(validation.dimension.levels) >= 1
     /\ HierarchyFrame(validation.dimension)
            = HierarchyFrame(hierarchy_calls[1].before))
        => ((/\ validation.error = "none"
             /\ \E i \in 1..Len(validation.results) :
                   /\ validation.results[i].severity = "error"
                   /\ validation.results[i].message \in HierarchyMessages)
            <=> hierarchy_calls[1].error # "none")

----------------------------------------------------------------------------
(* Hierarchy.levels_for_depth, levels_for_path and rollup on the          *)
(* hierarchy "h" of a dimension                                           *)

MaxDepth == 3
MaxPathLen == 3

\* a path holds one value per level, here the position
Paths == {[i \in 1..k |-> i] : k \in 0..MaxPathLen}

\* the levels asked for: none, the levels of the dimensions, one that no
\* dimension has
RollupLevels == {<<>>, <<"x">>} \cup LevelNames

LevelsInit ==
    /\ ModelInit
    /\ ArefIdle
    /\ CubeIdle
    /\ DimensionIdle
    /\ LocalizeIdle
    /\ QueryIdle

\* Dimension("d", levels, hierarchies=[Hierarchy("h", refs)])
NewDimensionWithHierarchy ==
    /\ new_dimension.error = "not called"
    /\ \E levels \in ListsOf(PlainLevels, MaxLevels) \ {<<>>} :
       \E refs \in HierarchyLevelRefs :
          new_dimension' = Dimension_init(1, <<"d">>, levels,
                                          <<Hierarchy(1, "h", refs)>>, "")
    /\ UNCHANGED <<model_vars, aref_vars, cube_vars, ref_call, hierarchy_calls,
                   validation, localize_vars, query_vars>>

\* the hierarchy "h" of the dimension
TheHierarchy == OD_get(new_dimension.hierarchies, "h")

\* the dimension with the hierarchy "h" as a call left it
WithTheHierarchy(hierarchy) ==
    [new_dimension EXCEPT !.hierarchies = OD_set(@, "h", hierarchy)]

\* dimension.hierarchy("h").levels, the property every reader of the levels
\* goes through: the first access resolves the level references
ReadLevels ==
    /\ new_dimension.error = "none"
    /\ query.op = "none"
    /\ \E r \in {Hierarchy_levels(new_dimension, TheHierarchy)} :
          /\ query' = [NoQuery EXCEPT !.op = "levels", !.error = r.error,
                                      !.result = r.levels]
          /\ new_dimension' = WithTheHierarchy(r.hierarchy)
    /\ UNCHANGED <<model_vars, aref_vars, cube_vars, ref_call, hierarchy_calls,
                   validation, localize_vars>>

\* dimension.hierarchy("h").levels_for_depth(depth, drilldown)
CallLevelsForDepth ==
    /\ new_dimension.error = "none"
    /\ query.op \in {"none", "levels"}
    /\ \E depth \in {NoDepth} \cup {Some(n) : n \in 0..MaxDepth} :
       \E drilldown \in BOOLEAN :
       \E r \in {levels_for_depth(new_dimension, TheHierarchy, depth,
                                  drilldown)} :
          /\ query' = [NoQuery EXCEPT !.op = "levels_for_depth",
                                      !.depth = depth, !.drilldown = drilldown,
                                      !.error = r.error, !.result = r.result]
          /\ new_dimension' = WithTheHierarchy(r.hierarchy)
    /\ UNCHANGED <<model_vars, aref_vars, cube_vars, ref_call, hierarchy_calls,
                   validation, localize_vars>>

\* dimension.hierarchy("h").levels_for_path(path, drilldown)
CallLevelsForPath ==
    /\ new_dimension.error = "none"
    /\ query.op \in {"none", "levels"}
    /\ \E path \in {None} \cup {Some(p) : p \in Paths} :
       \E drilldown \in BOOLEAN :
       \E r \in {levels_for_path(new_dimension, TheHierarchy, path,
                                 drilldown)} :
          /\ query' = [NoQuery EXCEPT !.op = "levels_for_path",
                                      !.path = path, !.drilldown = drilldown,
                                      !.error = r.error, !.result = r.result]
          /\ new_dimension' = WithTheHierarchy(r.hierarchy)
    /\ UNCHANGED <<model_vars, aref_vars, cube_vars, ref_call, hierarchy_calls,
                   validation, localize_vars>>

\* dimension.hierarchy("h").rollup(path, level)
CallRollup ==
    /\ new_dimension.error = "none"
    /\ query.op \in {"none", "levels"}
    /\ \E path \in {None} \cup {Some(p) : p \in Paths} :
       \E level \in RollupLevels :
       \E r \in {rollup(new_dimension, TheHierarchy, path, level)} :
          /\ query' = [NoQuery EXCEPT !.op = "rollup",
                                      !.path = path, !.level = level,
                                      !.error = r.error, !.result = r.result]
          /\ new_dimension' = WithTheHierarchy(r.hierarchy)
    /\ UNCHANGED <<model_vars, aref_vars, cube_vars, ref_call, hierarchy_calls,
                   validation, localize_vars>>

LevelsNext ==
    \/ NewDimensionWithHierarchy
    \/ ReadLevels
    \/ CallLevelsForDepth
    \/ CallLevelsForPath
    \/ CallRollup

SpecLevels == LevelsInit /\ [][LevelsNext]_vars

\* the hierarchy "h" names at least one level and only levels of the
\* dimension
HierarchyResolves ==
    /\ new_dimension.error = "none"
    /\ TheHierarchy._level_refs # <<>>
    /\ \A i \in 1..Len(TheHierarchy._level_refs) :
          OD_has(new_dimension.levels, TheHierarchy._level_refs[i])

\* the levels of the hierarchy "h", in hierarchy order
TheLevels == WithoutRepetitions(TheHierarchy._level_refs)

\* the number of levels a query asks for
Wanted ==
    (IF query.op = "levels_for_path"
     THEN IF query.path.some THEN Len(query.path.value) ELSE 0
     ELSE IF query.depth.some THEN query.depth.value ELSE 0)
    + (IF query.drilldown THEN 1 ELSE 0)

\* C25: levels_for_depth(depth, drilldown) returns the first depth levels
\* of the hierarchy (depth + 1 with drilldown, None counting as 0) when the
\* hierarchy has that many levels and fails otherwise, never returning a
\* shorter list; levels_for_path(path, drilldown) does the same for the
\* length of the path, an empty path or None counting as 0.
C25_LevelsForDepth ==
    (query.op \in {"levels_for_depth", "levels_for_path"} /\ HierarchyResolves)
        => IF Wanted <= Len(TheLevels)
           THEN /\ query.error = "none"
                /\ query.result = SubSeq(TheLevels, 1, Wanted)
           ELSE query.error = "HierarchyError"

C25_Witness ==
    /\ query.op = "levels_for_path"
    /\ HierarchyResolves
    /\ Len(TheLevels) = 2
    /\ query.path.some
    /\ Len(query.path.value) = 1
    /\ query.drilldown
    /\ query.result = <<<<"l">>, <<"m">>>>

\* the position of a level in the hierarchy "h", counted from 1; 0 when
\* the level is not part of it
PositionOf(level) ==
    IF level \in Range(TheLevels)
    THEN CHOOSE i \in 1..Len(TheLevels) : TheLevels[i] = level
    ELSE 0

\* C26: rollup(path, level) returns the first level_index(level) + 1
\* elements of the path and raises HierarchyError when the level is deeper
\* than the path or is not part of the hierarchy; without a level it
\* returns the path without its last element, [] for the empty path.  The
\* result is always a prefix of the path.
C26_RollupIsPrefix ==
    (query.op = "rollup" /\ HierarchyResolves /\ query.path.some)
        => LET path == query.path.value
               position == PositionOf(query.level)
           IN  /\ query.error = "none"
                    => /\ Len(query.result) <= Len(path)
                       /\ query.result = SubSeq(path, 1, Len(query.result))
               /\ IF query.level = <<>>
                  THEN /\ query.error = "none"
                       /\ query.result =
                             SubSeq(path, 1, IF path = <<>> THEN 0
                                             ELSE Len(path) - 1)
                  ELSE IF position = 0 \/ position > Len(path)
                  THEN query.error = "HierarchyError"
                  ELSE /\ query.error = "none"
                       /\ query.result = SubSeq(path, 1, position)

C26_Witness ==
    /\ query.op = "rollup"
    /\ HierarchyResolves
    /\ query.level = <<"l">>
    /\ Len(TheLevels) = 2
    /\ query.path = Some(<<1, 2>>)
    /\ query.result = <<1>>

\* C27: a failed Model.add_cube leaves the model unchanged: when add_cube
\* raises because a dimension of the cube has the name of a registered
\* dimension that is a different object, the model's dimensions and cubes
\* are the ones before the call.
C27_FailedAddCubeLeavesModel ==
    (/\ call.op = "add_cube"
     /\ call.error # "none"
     /\ Collides(call.pre_dimensions, call.cube))
        => /\ model_dimensions = call.pre_dimensions
           /\ model_cubes = call.pre_cubes

----------------------------------------------------------------------------
(* Model and the cubes registered in it: dimensions and cubes are added   *)
(* and removed, and dimensions are added to and removed from the          *)
(* registered cubes                                                       *)

\* Model.remove_dimension(dimension): del self._dimensions[dimension.name]
remove_dimension(dimensions, dimension) ==
    IF OD_has(dimensions, dimension.name)
    THEN [dimensions |-> SelectSeq(dimensions,
                                   LAMBDA e : e.key # dimension.name),
          error |-> "none"]
    ELSE [dimensions |-> dimensions, error |-> "KeyError"]

\* Model.remove_cube(cube): del self.cubes[cube.name]
remove_cube(cubes, cube) ==
    IF OD_has(cubes, cube.name)
    THEN [cubes |-> SelectSeq(cubes, LAMBDA e : e.key # cube.name),
          error |-> "none"]
    ELSE [cubes |-> cubes, error |-> "KeyError"]

\* Cube.add_dimension(dimension): a dimension of the name raises ModelError
Cube_add_dimension(cube, dimension) ==
    IF \E i \in 1..Len(cube.dimensions) :
          cube.dimensions[i].name = dimension.name
    THEN [cube |-> cube, error |-> "ModelError"]
    ELSE [cube |-> [cube EXCEPT !.dimensions = Append(@, dimension)],
          error |-> "none"]

(* Cube.remove_dimension(dimension): self.dimension(dimension) returns a  *)
(* Dimension object as it is; del self._dimensions[dim.name] raises       *)
(* KeyError when the cube has no dimension of the name                    *)
Cube_remove_dimension(cube, dimension) ==
    IF \E i \in 1..Len(cube.dimensions) :
          cube.dimensions[i].name = dimension.name
    THEN [cube |-> [cube EXCEPT !.dimensions =
                       SelectSeq(@, LAMBDA d : d.name # dimension.name)],
          error |-> "none"]
    ELSE [cube |-> cube, error |-> "KeyError"]

\* the cubes added to the model: one name, at most one dimension; more
\* dimensions come with Cube.add_dimension
RegistryCubes ==
    {cube \in CubeObjects :
        cube.name = "sales" /\ Len(cube.dimensions) < MaxCubeDims}

RegistryInit ==
    /\ ModelInit
    /\ ArefIdle
    /\ CubeIdle
    /\ DimensionIdle
    /\ LocalizeIdle
    /\ QueryIdle

\* model.remove_dimension(dimension)
RemoveDimension ==
    \E dimension \in DimensionObjects :
    \E r \in {remove_dimension(model_dimensions, dimension)} :
        /\ model_dimensions' = r.dimensions
        /\ call' = [op |-> "remove_dimension", dimension |-> dimension,
                    cube |-> NoCube, pre_dimensions |-> model_dimensions,
                    pre_cubes |-> model_cubes, error |-> r.error]
        /\ UNCHANGED <<model_cubes, aref_vars, cube_vars, dimension_vars,
                       localize_vars, query_vars>>

\* model.remove_cube(cube) of a registered cube
RemoveCube ==
    \E j \in 1..Len(model_cubes) :
    \E r \in {remove_cube(model_cubes, model_cubes[j].value)} :
        /\ model_cubes' = r.cubes
        /\ call' = [op |-> "remove_cube", dimension |-> NoDimension,
                    cube |-> model_cubes[j].value,
                    pre_dimensions |-> model_dimensions,
                    pre_cubes |-> model_cubes, error |-> r.error]
        /\ UNCHANGED <<model_dimensions, aref_vars, cube_vars, dimension_vars,
                       localize_vars, query_vars>>

\* cube.add_dimension(dimension) on a registered cube
CubeAddDimension ==
    \E j \in 1..Len(model_cubes) :
    \E dimension \in DimensionObjects :
    \E r \in {Cube_add_dimension(model_cubes[j].value, dimension)} :
        /\ model_cubes' = [model_cubes EXCEPT ![j].value = r.cube]
        /\ call' = [op |-> "Cube.add_dimension", dimension |-> dimension,
                    cube |-> model_cubes[j].value,
                    pre_dimensions |-> model_dimensions,
                    pre_cubes |-> model_cubes, error |-> r.error]
        /\ UNCHANGED <<model_dimensions, aref_vars, cube_vars, dimension_vars,
                       localize_vars, query_vars>>

\* cube.remove_dimension(dimension) on a registered cube
CubeRemoveDimension ==
    \E j \in 1..Len(model_cubes) :
    \E dimension \in DimensionObjects :
    \E r \in {Cube_remove_dimension(model_cubes[j].value, dimension)} :
        /\ model_cubes' = [model_cubes EXCEPT ![j].value = r.cube]
        /\ call' = [op |-> "Cube.remove_dimension", dimension |-> dimension,
                    cube |-> model_cubes[j].value,
                    pre_dimensions |-> model_dimensions,
                    pre_cubes |-> model_cubes, error |-> r.error]
        /\ UNCHANGED <<model_dimensions, aref_vars, cube_vars, dimension_vars,
                       localize_vars, query_vars>>

RegistryNext ==
    \/ \E dimension \in DimensionObjects : AddDimension(dimension)
    \/ \E cube \in RegistryCubes : AddCube(cube)
    \/ RemoveDimension
    \/ RemoveCube
    \/ CubeAddDimension
    \/ CubeRemoveDimension

SpecRegistry == RegistryInit /\ [][RegistryNext]_vars

\* C28: after any sequence of Model.add_dimension, add_cube, remove_cube,
\* remove_dimension and Cube.add_dimension / remove_dimension calls on
\* registered cubes, every dimension of every registered cube is registered
\* in the model under its name.
C28_CubeDimensionsStayRegistered ==
    \A j \in 1..Len(model_cubes) :
        \A d \in Range(model_cubes[j].value.dimensions) :
            OD_has(model_dimensions, d.name)

\* C29: after Dimension(name, levels) every attribute of every level of the
\* dimension has the dimension as its back-reference, and validate() of the
\* dimension reports no 'does not match with owning dimension' error.
C29_BackReferencesAreSet ==
    new_dimension.error = "none"
        => /\ \A li \in 1..Len(new_dimension.levels) :
                \A ai \in 1..Len(new_dimension.levels[li].value.attributes) :
                    new_dimension.levels[li].value.attributes[ai].dimension
                        = new_dimension.id
           /\ (validation.of = "dimension" /\ validation.error = "none")
                => \A i \in 1..Len(validation.results) :
                      validation.results[i].message
                          # "Dimension of attribute does not match"

\* the object `id` seen as a dimension: its name and its levels with their
\* attributes
DimensionOf(objects, id) ==
    [name |-> objects[id].name,
     levels |-> [li \in 1..Len(objects[id].levels) |->
                    [key |-> objects[objects[id].levels[li]].name,
                     value |->
                       [name |-> objects[objects[id].levels[li]].name,
                        attributes |->
                          [ai \in 1..Len(objects[objects[id].levels[li]].attributes) |->
                              objects[objects[objects[id].levels[li]].attributes[ai]]]]]]]

\* attribute.ref() of the attribute object `id`
RefOf(objects, id) ==
    Attribute_ref(objects[id], TRUE,
                  [d \in 1..Len(objects) |-> DimensionOf(objects, d)])

\* C30: for every attribute a of a dimension of the model and its
\* counterpart a' in the localized model, a'.dimension is the localized
\* model's copy of the dimension of a, and a'.ref() = a.ref().
C30_LocalizeKeepsBackReferences ==
    localized.error = "none"
        => \A d \in Range(localized.before[localized.self].dimensions) :
              \A a \in Range(localized.before[d].attributes) :
                 LET copy == deepcopy_ref(localized.before, a)
                 IN  /\ heap[copy].dimension = deepcopy_ref(localized.before, d)
                     /\ RefOf(heap, copy) = RefOf(localized.before, a)

====
